---- MODULE Spec2Model ----
(***************************************************************************)
(* A model of ldapjs/dn: the RFC 4514 distinguished-name parser, the       *)
(* serializer and the RDN / DN data model.                                  *)
(*                                                                          *)
(* Strings and buffers are sequences of bytes (0..255): a JavaScript        *)
(* string is represented by its UTF-8 encoding, which is what               *)
(* Buffer.from(s, 'utf8') hands to every scanner of the parser.  Buffer     *)
(* offsets are 0-based as in the source; At(buf, pos) is searchBuffer[pos]. *)
(***************************************************************************)
EXTENDS Integers, Sequences, FiniteSets, TLC

\* --------------------------------------------------------------- bounds
\* Longest free byte string appended to a prefix to form a parser input.
MaxTail == 4
\* Longest attribute value of a DN built directly through the data model.
MaxValLen == 2
\* Most RDNs in a DN of the hierarchy specification.
MaxDnLen == 2
\* Most operations applied to the object heap in one behaviour.
MaxOps == 3
\* Most characters of a value handed to escapeValue.
MaxEscChars == 3
MaxBerLen == 2
MaxQuoteLen == 5
MaxNameLen == 5
MaxReadLen == 5
MaxOrderLen == 3

\* ------------------------------------------------- JavaScript primitives
\* The value of an out-of-range Buffer or string read.
Undef == -1
\* Number.NaN, as returned by parseInt.
NaN == -100000

SPACE == 32
QUOTE == 34
HASH == 35
PLUS == 43
COMMA == 44
SEMI == 59
EQUALS == 61
BACKSLASH == 92

\* searchBuffer[pos]
At(buf, pos) == IF pos >= 0 /\ pos < Len(buf) THEN buf[pos + 1] ELSE Undef

\* buf.subarray(start, end): a negative index counts from the end, and both
\* are clamped to the buffer.
ClampIndex(i, n) == IF i < 0 THEN (IF n + i < 0 THEN 0 ELSE n + i)
                    ELSE (IF i > n THEN n ELSE i)

Subarray(buf, start, end) ==
    LET s == ClampIndex(start, Len(buf))
        e == ClampIndex(end, Len(buf))
    IN  IF e <= s THEN <<>> ELSE SubSeq(buf, s + 1, e)

\* String.fromCharCode(c) for a byte or undefined, as a char code:
\* undefined becomes NaN and then U+0000.
CharCode(c) == IF c = Undef THEN 0 ELSE c

IsDigitCode(c) == c >= 48 /\ c <= 57
IsAlphaCode(c) == (c >= 65 /\ c <= 90) \/ (c >= 97 /\ c <= 122)
IsHexCode(c) == IsDigitCode(c) \/ (c >= 65 /\ c <= 70) \/ (c >= 97 /\ c <= 102)

HexVal(c) == IF IsDigitCode(c) THEN c - 48
             ELSE IF c >= 97 THEN c - 87 ELSE c - 55

\* The characters below U+0100 that parseInt skips as leading white space.
IsJsSpaceCode(c) == c \in {9, 10, 11, 12, 13, 32, 160}

\* parseInt(String.fromCharCode(c1) + String.fromCharCode(c2), 16): leading
\* white space is skipped, a sign is honoured, a "0x" prefix is dropped, and
\* the longest prefix of hex digits is converted; NaN when there is none.
ParseInt16(c1, c2) ==
    LET a == CharCode(c1)
        b == CharCode(c2)
    IN  IF IsJsSpaceCode(a)
        THEN (IF IsHexCode(b) THEN HexVal(b) ELSE NaN)
        ELSE IF a = 43 THEN (IF IsHexCode(b) THEN HexVal(b) ELSE NaN)
        ELSE IF a = 45 THEN (IF IsHexCode(b) THEN 0 - HexVal(b) ELSE NaN)
        ELSE IF a = 48 /\ b \in {88, 120} THEN NaN
        ELSE IF IsHexCode(a)
        THEN (IF IsHexCode(b) THEN 16 * HexVal(a) + HexVal(b) ELSE HexVal(a))
        ELSE NaN

\* The byte Buffer.from([n]) stores for a number: NaN is 0, others wrap.
ToUint8(n) == IF n = NaN THEN 0 ELSE n % 256

\* Number(n).toString(16) for a nibble, as a char code (lowercase).
HexDigit(n) == IF n < 10 THEN 48 + n ELSE 87 + n

\* ----------------------------------------------------------- UTF-8 text
\* Buffer.prototype.toString('utf8') followed by re-encoding: the bytes of
\* the decoded string.  A well-formed sequence is kept; every maximal
\* ill-formed subpart becomes U+FFFD (EF BF BD).
Replacement == <<239, 191, 189>>

IsCont(c) == c >= 128 /\ c <= 191

\* Number of continuation bytes a lead byte asks for (0: not a lead byte).
Utf8Need(c) == IF c >= 194 /\ c <= 223 THEN 1
               ELSE IF c >= 224 /\ c <= 239 THEN 2
               ELSE IF c >= 240 /\ c <= 244 THEN 3
               ELSE 0

\* The range allowed for the byte right after lead byte c.
Utf8SecondOk(c, d) ==
    IF c = 224 THEN d >= 160 /\ d <= 191
    ELSE IF c = 237 THEN d >= 128 /\ d <= 159
    ELSE IF c = 240 THEN d >= 144 /\ d <= 191
    ELSE IF c = 244 THEN d >= 128 /\ d <= 143
    ELSE IsCont(d)

\* How many bytes from position i (1-based) form a valid prefix of one
\* encoded character, and whether the character is complete.
Utf8Scan(bs, i) ==
    LET c == bs[i]
        need == Utf8Need(c)
        ok1 == i + 1 <= Len(bs) /\ Utf8SecondOk(c, bs[i + 1])
        ok2 == ok1 /\ i + 2 <= Len(bs) /\ IsCont(bs[i + 2])
        ok3 == ok2 /\ i + 3 <= Len(bs) /\ IsCont(bs[i + 3])
    IN  IF c <= 127 THEN [len |-> 1, ok |-> TRUE]
        ELSE IF need = 0 THEN [len |-> 1, ok |-> FALSE]
        ELSE IF need = 1 THEN (IF ok1 THEN [len |-> 2, ok |-> TRUE]
                               ELSE [len |-> 1, ok |-> FALSE])
        ELSE IF need = 2 THEN (IF ok2 THEN [len |-> 3, ok |-> TRUE]
                               ELSE IF ok1 THEN [len |-> 2, ok |-> FALSE]
                               ELSE [len |-> 1, ok |-> FALSE])
        ELSE (IF ok3 THEN [len |-> 4, ok |-> TRUE]
              ELSE IF ok2 THEN [len |-> 3, ok |-> FALSE]
              ELSE IF ok1 THEN [len |-> 2, ok |-> FALSE]
              ELSE [len |-> 1, ok |-> FALSE])

RECURSIVE Utf8From(_, _)
Utf8From(bs, i) ==
    IF i > Len(bs) THEN <<>>
    ELSE LET r == Utf8Scan(bs, i)
         IN  (IF r.ok THEN SubSeq(bs, i, i + r.len - 1) ELSE Replacement)
             \o Utf8From(bs, i + r.len)

Utf8Text(bs) == Utf8From(bs, 1)

IsUtf8(bs) == Utf8Text(bs) = bs

\* String.prototype.trim(): the length of the white-space character that
\* starts at (1-based) position i of the encoded string, 0 when none does.
WsLenAt(bs, i) ==
    LET c == bs[i]
        d == IF i + 1 <= Len(bs) THEN bs[i + 1] ELSE Undef
        e == IF i + 2 <= Len(bs) THEN bs[i + 2] ELSE Undef
    IN  IF c \in {9, 10, 11, 12, 13, 32} THEN 1
        ELSE IF c = 194 /\ d = 160 THEN 2
        ELSE IF c = 225 /\ d = 154 /\ e = 128 THEN 3
        ELSE IF c = 226 /\ d = 128 /\ ((e >= 128 /\ e <= 138) \/ e \in {168, 169, 175})
        THEN 3
        ELSE IF c = 226 /\ d = 129 /\ e = 159 THEN 3
        ELSE IF c = 227 /\ d = 128 /\ e = 128 THEN 3
        ELSE IF c = 239 /\ d = 187 /\ e = 191 THEN 3
        ELSE 0

RECURSIVE TrimStart(_)
TrimStart(bs) ==
    IF bs = <<>> THEN bs
    ELSE LET n == WsLenAt(bs, 1)
         IN  IF n = 0 THEN bs ELSE TrimStart(SubSeq(bs, n + 1, Len(bs)))

\* The white-space character that ends the string, if any, ends at Len(bs)
\* and starts 1, 2 or 3 bytes before.
WsLenAtEnd(bs) ==
    LET n == Len(bs)
    IN  IF n >= 1 /\ WsLenAt(bs, n) = 1 THEN 1
        ELSE IF n >= 2 /\ WsLenAt(bs, n - 1) = 2 THEN 2
        ELSE IF n >= 3 /\ WsLenAt(bs, n - 2) = 3 THEN 3
        ELSE 0

RECURSIVE TrimEnd(_)
TrimEnd(bs) ==
    IF bs = <<>> THEN bs
    ELSE LET n == WsLenAtEnd(bs)
         IN  IF n = 0 THEN bs ELSE TrimEnd(SubSeq(bs, 1, Len(bs) - n))

Trim(bs) == TrimEnd(TrimStart(bs))

\* A thrown Error: its message and the detail the message carries.
Throw(msg, detail) == [ok |-> FALSE, err |-> msg, detail |-> detail]

\* ---------------------------------------------------------- escape codec
\* toEscapedHexString without padStart(2, '0').
toEscapedHexString_NoPad(char) ==
    IF char < 16 THEN <<BACKSLASH, HexDigit(char)>>
    ELSE <<BACKSLASH, HexDigit(char \div 16), HexDigit(char % 16)>>

\* toEscapedHexString(char): '\' and two lowercase hex digits.
toEscapedHexString(char) ==
    <<BACKSLASH, HexDigit(char \div 16), HexDigit(char % 16)>>

embeddedReservedChars == {34, 43, 44, 59, 60, 62}

\* The bytes escapeValue handles at offset i (0-based) and their rendering.
EscapeStep(toEscape, i) ==
    LET charHex == At(toEscape, i)
        n == Len(toEscape)
        esc(k) == toEscapedHexString(At(toEscape, i + k))
    IN  IF i = 0 /\ (charHex = 32 \/ charHex = 35)
        THEN [out |-> esc(0), adv |-> 1]
        ELSE IF i = n - 1 /\ charHex = 32
        THEN [out |-> esc(0), adv |-> 1]
        ELSE IF charHex \in embeddedReservedChars
        THEN [out |-> esc(0), adv |-> 1]
        ELSE IF charHex >= 192 /\ charHex <= 223
        THEN [out |-> esc(0) \o esc(1), adv |-> 2]
        ELSE IF charHex >= 224 /\ charHex <= 239
        THEN [out |-> esc(0) \o esc(1) \o esc(2), adv |-> 3]
        ELSE IF charHex >= 240 /\ charHex <= 247
        THEN [out |-> esc(0) \o esc(1) \o esc(2) \o esc(3), adv |-> 4]
        ELSE IF charHex <= 31
        THEN [out |-> esc(0), adv |-> 1]
        ELSE [out |-> <<charHex>>, adv |-> 1]

RECURSIVE EscapeFrom(_, _)
EscapeFrom(toEscape, i) ==
    IF i >= Len(toEscape) THEN <<>>
    ELSE LET s == EscapeStep(toEscape, i)
         IN  s.out \o EscapeFrom(toEscape, i + s.adv)

\* escapeValue(value) for a string value (its UTF-8 bytes, well formed, so
\* every lead byte is followed by its continuation bytes).
escapeValue(value) == EscapeFrom(value, 0)

\* escapeValue(value) for any value: one that is not a string is rejected.
escapeValueOf(value) ==
    IF value.t # "str" THEN Throw("value must be a string", <<>>)
    ELSE [ok |-> TRUE, text |-> escapeValue(value.b)]

\* -------------------------------------------------------- escape decoder
\* readEscapeSequence: reads '\XY' sequences from pos until a byte that is
\* not a backslash; buf_ collects the decoded numbers, stored as bytes.
RECURSIVE EscapeLoop(_, _, _)
EscapeLoop(searchBuffer, pos, buf_) ==
    IF ~(pos < Len(searchBuffer)) \/ At(searchBuffer, pos) # BACKSLASH
    THEN [ok |-> TRUE, endPos |-> pos, parsed |-> buf_]
    ELSE
      LET nextChar == At(searchBuffer, pos + 1)
          hexCode == ParseInt16(nextChar, At(searchBuffer, pos + 2))
          pair(k) == ToUint8(ParseInt16(At(searchBuffer, pos + k),
                                        At(searchBuffer, pos + k + 1)))
      IN  IF hexCode = NaN
          THEN (IF nextChar >= 0 /\ nextChar <= 127
                THEN EscapeLoop(searchBuffer, pos + 2, Append(buf_, nextChar))
                ELSE Throw("invalid hex code in escape sequence", <<>>))
          ELSE IF hexCode >= 192 /\ hexCode <= 223
          THEN EscapeLoop(searchBuffer, pos + 6,
                          buf_ \o <<hexCode, pair(4)>>)
          ELSE IF hexCode >= 224 /\ hexCode <= 239
          THEN EscapeLoop(searchBuffer, pos + 9,
                          buf_ \o <<hexCode, pair(4), pair(7)>>)
          ELSE IF hexCode >= 240 /\ hexCode <= 247
          THEN EscapeLoop(searchBuffer, pos + 12,
                          buf_ \o <<hexCode, pair(4), pair(7), pair(10)>>)
          ELSE EscapeLoop(searchBuffer, pos + 3,
                          Append(buf_, ToUint8(hexCode)))

readEscapeSequence(searchBuffer, startPos) ==
    EscapeLoop(searchBuffer, startPos, <<>>)

\* ------------------------------------------------------ hex-octet reader
\* isEndChar of read-hex-string.js: space, '+', ',' and ';'.
HexIsEndChar(c) == c \in {32, 43, 44, 59}

isValidHexCode(c1, c2) == IsHexCode(CharCode(c1)) /\ IsHexCode(CharCode(c2))

RECURSIVE HexLoop(_, _, _)
HexLoop(searchBuffer, pos, bytes) ==
    IF ~(pos < Len(searchBuffer)) \/ HexIsEndChar(At(searchBuffer, pos))
    THEN [ok |-> TRUE, endPos |-> pos, bytes |-> bytes]
    ELSE LET c1 == At(searchBuffer, pos)
             c2 == At(searchBuffer, pos + 1)
         IN  IF ~isValidHexCode(c1, c2)
             THEN Throw("invalid hex pair encountered: 0x",
                        <<CharCode(c1), CharCode(c2)>>)
             ELSE HexLoop(searchBuffer, pos + 2,
                          Append(bytes, ParseInt16(c1, c2)))

\* readHexString: the bytes go into a new BerReader (see BerValue).
readHexString(searchBuffer, startPos) == HexLoop(searchBuffer, startPos, <<>>)

\* ----------------------------------------------------------- name scanner
\* isLeadChar of find-name-start.js: /[a-zA-Z0-9]/
isLeadChar(c) == IsAlphaCode(c) \/ IsDigitCode(c)

\* findNameStart: skips spaces and commas; -1 unless a lead character follows.
RECURSIVE findNameStart(_, _)
findNameStart(searchBuffer, pos) ==
    IF ~(pos < Len(searchBuffer)) THEN -1
    ELSE IF At(searchBuffer, pos) = SPACE \/ At(searchBuffer, pos) = COMMA
    THEN findNameStart(searchBuffer, pos + 1)
    ELSE IF isLeadChar(At(searchBuffer, pos)) THEN pos
    ELSE -1

isValidNameChar(c) == IsAlphaCode(c) \/ IsDigitCode(c) \/ c = 45 \/ c = 46

\* findNameEnd: the offset of the space or '=' that ends the name, the buffer
\* length when the name runs to the end, -1 on any other byte.
RECURSIVE findNameEnd(_, _)
findNameEnd(searchBuffer, pos) ==
    IF ~(pos < Len(searchBuffer)) THEN pos
    ELSE IF At(searchBuffer, pos) = SPACE \/ At(searchBuffer, pos) = EQUALS
    THEN pos
    ELSE IF isValidNameChar(At(searchBuffer, pos))
    THEN findNameEnd(searchBuffer, pos + 1)
    ELSE -1

\* The code units a regular expression sees when it is handed name[0]: the
\* first character, or the text "undefined" for the empty string.
UndefinedText == <<117, 110, 100, 101, 102, 105, 110, 101, 100>>

FirstCharText(name) == IF name = <<>> THEN UndefinedText ELSE <<name[1]>>

Some(text, P(_)) == \E i \in 1..Len(text) : P(text[i])

IsKeyChar(c) == IsAlphaCode(c) \/ c = 45
IsNotDescrChar(c) == ~(IsAlphaCode(c) \/ IsDigitCode(c) \/ c = 45)

\* isValidAttributeTypeName(name); the regular expressions are unanchored.
isValidAttributeTypeName(name) ==
    IF Some(FirstCharText(name), IsDigitCode)
    THEN ~Some(name, IsKeyChar)
    ELSE IF ~Some(FirstCharText(name), IsAlphaCode)
    THEN FALSE
    ELSE ~Some(name, IsNotDescrChar)

\* ------------------------------------------------- attribute-value reader
\* isEndChar of read-attribute-value.js: '+', ',' and ';'.
isEndChar(c) == c \in {43, 44, 59}

\* After the closing quote: spaces up to an end character or the buffer end.
RECURSIVE AfterQuote(_, _)
AfterQuote(searchBuffer, pos) ==
    IF ~(pos < Len(searchBuffer)) \/ isEndChar(At(searchBuffer, pos))
    THEN [ok |-> TRUE, endPos |-> pos]
    ELSE IF At(searchBuffer, pos) # SPACE
    THEN Throw("significant rdn character found outside of quotes at position",
               pos)
    ELSE AfterQuote(searchBuffer, pos + 1)

\* The value read when the closing quote has been seen.
QuotedValue(r, bytes) ==
    IF r.ok THEN [ok |-> TRUE, endPos |-> r.endPos, value |-> bytes] ELSE r

\* The main loop of readValueString.  It runs while pos <= byteLength, so an
\* escape sequence that ends past the buffer ends the scan without the
\* check for a missing quote.
RECURSIVE ValueLoop(_, _, _, _, _)
RECURSIVE AfterEscape(_, _, _, _, _)
AfterEscape(searchBuffer, startPos, inQuotes, bytes, seqResult) ==
    IF ~seqResult.ok THEN seqResult
    ELSE IF seqResult.endPos > Len(searchBuffer)
    THEN [ok |-> TRUE, endPos |-> seqResult.endPos,
          value |-> bytes \o seqResult.parsed]
    ELSE ValueLoop(searchBuffer, startPos, seqResult.endPos, inQuotes,
                   bytes \o seqResult.parsed)

ValueLoop(searchBuffer, startPos, pos, inQuotes, bytes) ==
    IF pos = Len(searchBuffer)
    THEN (IF inQuotes
          THEN Throw("missing ending double quote for attribute value", <<>>)
          ELSE [ok |-> TRUE, endPos |-> pos, value |-> bytes])
    ELSE IF At(searchBuffer, pos) = QUOTE
    THEN (IF inQuotes
          THEN QuotedValue(AfterQuote(searchBuffer, pos + 1), bytes)
          ELSE IF pos # startPos
          THEN Throw("unexpected quote in rdn string at position", pos)
          ELSE ValueLoop(searchBuffer, startPos, pos + 1, TRUE, bytes))
    ELSE IF isEndChar(At(searchBuffer, pos)) /\ ~inQuotes
    THEN [ok |-> TRUE, endPos |-> pos, value |-> bytes]
    ELSE IF At(searchBuffer, pos) = BACKSLASH
    THEN AfterEscape(searchBuffer, startPos, inQuotes, bytes,
                     readEscapeSequence(searchBuffer, pos))
    ELSE ValueLoop(searchBuffer, startPos, pos + 1, inQuotes,
                   Append(bytes, At(searchBuffer, pos)))

readValueString(searchBuffer, startPos) ==
    ValueLoop(searchBuffer, startPos, startPos, FALSE, <<>>)

\* Attribute values: a string (the UTF-8 bytes of the JavaScript string) or
\* a BerReader, an object with an identity (the place that allocated it)
\* holding a buffer of bytes.
StrValue(bytes) == [t |-> "str", b |-> bytes, id |-> <<>>]
BerValue(bytes, id) == [t |-> "ber", b |-> bytes, id |-> id]

RECURSIVE SkipSpaces(_, _, _)
SkipSpaces(searchBuffer, pos, limit) ==
    IF pos < limit /\ At(searchBuffer, pos) = SPACE
    THEN SkipSpaces(searchBuffer, pos + 1, limit)
    ELSE pos

\* The value of a '#' form: the BerReader readHexString built.
HexValue(result, id) ==
    IF ~result.ok THEN result
    ELSE [ok |-> TRUE, endPos |-> result.endPos,
          value |-> BerValue(result.bytes, id)]

\* The value of a plain or quoted form:
\* readValueResult.value.toString('utf8').trim()
TextValue(readValueResult) ==
    IF ~readValueResult.ok THEN readValueResult
    ELSE [ok |-> TRUE, endPos |-> readValueResult.endPos,
          value |-> StrValue(Trim(Utf8Text(readValueResult.value)))]

\* readAttributeValue from the first byte after '=' and the spaces.
ValueAt(searchBuffer, pos, call) ==
    IF pos >= Len(searchBuffer)
    THEN [ok |-> TRUE, endPos |-> pos, value |-> StrValue(<<>>)]
    ELSE IF At(searchBuffer, pos) = HASH
    THEN HexValue(readHexString(searchBuffer, pos + 1), <<call, pos>>)
    ELSE TextValue(readValueString(searchBuffer, pos))

\* readAttributeValue from the byte that has to be '='.
ValueAfterName(searchBuffer, pos, call) ==
    IF pos >= Len(searchBuffer) \/ At(searchBuffer, pos) # EQUALS
    THEN Throw("attribute value does not start with equals sign", <<>>)
    ELSE ValueAt(searchBuffer,
                 SkipSpaces(searchBuffer, pos + 1, Len(searchBuffer) + 1), call)

\* readAttributeValue; call names the parseString call that is running, so
\* that every BerReader it allocates is a distinct object.
readAttributeValue(searchBuffer, startPos, call) ==
    ValueAfterName(searchBuffer,
                   SkipSpaces(searchBuffer, startPos, Len(searchBuffer)), call)

\* -------------------------------------------------- attribute-pair reader
PairResult(attributeName, valueReadResult) ==
    IF ~valueReadResult.ok THEN valueReadResult
    ELSE [ok |-> TRUE, endPos |-> valueReadResult.endPos,
          name |-> attributeName, value |-> valueReadResult.value]

PairNamed(searchBuffer, attributeName, nameEndPos, call) ==
    IF ~isValidAttributeTypeName(attributeName)
    THEN Throw("invalid attribute type name: ", attributeName)
    ELSE PairResult(attributeName,
                    readAttributeValue(searchBuffer, nameEndPos, call))

\* The second check tests nameStartPos again, as the source does, so a -1
\* from findNameEnd goes on into subarray and the value reader.
PairBetween(searchBuffer, nameStartPos, nameEndPos, call) ==
    IF nameStartPos < 0
    THEN Throw("invalid character in attribute name encountered", <<>>)
    ELSE PairNamed(searchBuffer,
                   Utf8Text(Subarray(searchBuffer, nameStartPos, nameEndPos)),
                   nameEndPos, call)

PairFrom(searchBuffer, nameStartPos, call) ==
    IF nameStartPos < 0
    THEN Throw("invalid attribute name leading character encountered", <<>>)
    ELSE PairBetween(searchBuffer, nameStartPos,
                     findNameEnd(searchBuffer, nameStartPos), call)

readAttributePair(searchBuffer, startPos, call) ==
    PairFrom(searchBuffer, findNameStart(searchBuffer, startPos), call)

\* ------------------------------------------------------- DN string parser
\* A plain object (the rdn of parseString) is the sequence of its own
\* properties in enumeration order: array-index keys ascending, then the
\* other keys in insertion order.
RECURSIVE LexLess(_, _)
LexLess(a, b) ==
    /\ a # <<>>
    /\ b # <<>>
    /\ \/ a[1] < b[1]
       \/ a[1] = b[1] /\ LexLess(Tail(a), Tail(b))

\* The order of two canonical numeric strings.
NumLess(a, b) == Len(a) < Len(b) \/ (Len(a) = Len(b) /\ LexLess(a, b))

\* "4294967295", 2^32 - 1
MaxIndexText == <<52, 50, 57, 52, 57, 54, 55, 50, 57, 53>>

\* A canonical numeric string below 2^32 - 1 is an array index.
IsArrayIndex(name) ==
    /\ name # <<>>
    /\ \A i \in 1..Len(name) : IsDigitCode(name[i])
    /\ (Len(name) = 1 \/ name[1] # 48)
    /\ NumLess(name, MaxIndexText)

HasName(obj, name) == \E i \in 1..Len(obj) : obj[i].name = name

\* Where a new key goes: before the first array index greater than it and
\* before every other key, or at the end.
RECURSIVE IndexSlot(_, _, _)
IndexSlot(obj, name, i) ==
    IF i > Len(obj) THEN i
    ELSE IF IsArrayIndex(obj[i].name) /\ NumLess(obj[i].name, name)
    THEN IndexSlot(obj, name, i + 1)
    ELSE i

\* { ...rdn, [name]: value }
ObjectSet(obj, name, value) ==
    IF HasName(obj, name)
    THEN [i \in 1..Len(obj) |->
            IF obj[i].name = name THEN [name |-> name, value |-> value]
            ELSE obj[i]]
    ELSE IF IsArrayIndex(name)
    THEN LET k == IndexSlot(obj, name, 1)
         IN  SubSeq(obj, 1, k - 1) \o <<[name |-> name, value |-> value]>>
             \o SubSeq(obj, k, Len(obj))
    ELSE Append(obj, [name |-> name, value |-> value])

\* The inner loop of parseString looks at searchBuffer[pos] without moving
\* when the byte is none of '+', ',' and ';': it never ends.
Hang == [kind |-> "hang"]
Thrown(r) == [kind |-> "throw", err |-> r.err, detail |-> r.detail]
Returned(rdns) == [kind |-> "ok", rdns |-> rdns]

\* One iteration of readRdnLoop from the attribute pair on.
RECURSIVE readRdnLoop(_, _, _, _, _)
RECURSIVE AfterPair(_, _, _, _, _)
RECURSIVE AfterMerge(_, _, _, _, _)
AfterMerge(searchBuffer, pos, rdn, rdns, call) ==
    IF pos >= Len(searchBuffer) THEN Returned(Append(rdns, rdn))
    ELSE IF At(searchBuffer, pos) = PLUS
    THEN readRdnLoop(searchBuffer, pos + 1, rdn, rdns, call)
    ELSE IF At(searchBuffer, pos) = COMMA \/ At(searchBuffer, pos) = SEMI
    THEN readRdnLoop(searchBuffer, pos + 1, <<>>, Append(rdns, rdn), call)
    ELSE Hang

AfterPair(searchBuffer, readAttrPairResult, rdn, rdns, call) ==
    IF ~readAttrPairResult.ok THEN Thrown(readAttrPairResult)
    ELSE AfterMerge(searchBuffer, readAttrPairResult.endPos,
                    ObjectSet(rdn, readAttrPairResult.name,
                              readAttrPairResult.value),
                    rdns, call)

readRdnLoop(searchBuffer, pos, rdn, rdns, call) ==
    IF ~(pos <= Len(searchBuffer)) THEN Returned(rdns)
    ELSE IF pos = Len(searchBuffer)
            /\ At(searchBuffer, pos - 1) \in {PLUS, COMMA, SEMI}
    THEN Thrown(Throw("rdn string ends abruptly with character: ",
                      At(searchBuffer, pos - 1)))
    ELSE AfterPair(searchBuffer,
                   readAttributePair(searchBuffer,
                       SkipSpaces(searchBuffer, pos, Len(searchBuffer)), call),
                   rdn, rdns, call)

\* parseString without the short circuit for the empty string.
parseString_NoShortCircuit(input, call) ==
    readRdnLoop(input, 0, <<>>, <<>>, call)

\* parseString(input) for a string input.
parseString(input, call) ==
    IF Len(input) = 0 THEN Returned(<<>>)
    ELSE readRdnLoop(input, 0, <<>>, <<>>, call)

\* -------------------------------------------------------------------- RDN
\* An RDN is its #attributes Map: the entries in insertion order.
partIsNotNumeric(part) ==
    part = <<>> \/ \E i \in 1..Len(part) : ~IsDigitCode(part[i])

\* value.split('.') has a part that is not /^\d+$/: the parts are the
\* maximal runs between dots.
RECURSIVE HasBadPart(_, _)
HasBadPart(value, part) ==
    IF value = <<>> THEN partIsNotNumeric(part)
    ELSE IF value[1] = 46
    THEN partIsNotNumeric(part) \/ HasBadPart(Tail(value), <<>>)
    ELSE HasBadPart(Tail(value), Append(part, value[1]))

isDottedDecimal(value) == ~HasBadPart(value, <<>>)

startsWithAlpha(str) == str # <<>> /\ IsAlphaCode(str[1])

\* The name check of RDN.setAttribute (name and value of the right types).
NameAccepted(name) == startsWithAlpha(name) \/ isDottedDecimal(name)

\* const attr = { value, name }: an entry of #attributes.  name is the key
\* of the entry in the Map, attrName the name property of the stored
\* object, extra its other properties.
AttrOf(name, value) ==
    [name |-> name, value |-> value, attrName |-> name, extra |-> <<>>]

\* for (const [key, val] of Object.entries(options)): every key but
\* 'value' is copied onto the stored object.
RECURSIVE WithOptions(_, _, _)
WithOptions(attr, props, i) ==
    IF i > Len(props) THEN attr
    ELSE IF props[i].key = "value" THEN WithOptions(attr, props, i + 1)
    ELSE IF props[i].key = "name"
    THEN WithOptions([attr EXCEPT !.attrName = props[i].val], props, i + 1)
    ELSE WithOptions([attr EXCEPT !.extra = Append(@, props[i])], props, i + 1)

\* this.#attributes.set(name, attr) on the entries attrs.
MapSet(attrs, name, attr) ==
    IF HasName(attrs, name)
    THEN [i \in 1..Len(attrs) |-> IF attrs[i].name = name THEN attr ELSE attrs[i]]
    ELSE Append(attrs, attr)

\* An options argument that is a plain object with the given properties;
\* the default of the parameter is {}.
OptionsObject(props) == [tag |-> "Object", props |-> props]

\* The outcome of a setAttribute call: whether it returned, the message
\* of the error when it threw, and the entries it leaves.
Rejected(attrs, msg) == [ok |-> FALSE, err |-> msg, attrs |-> attrs]

Accepted(attrs) == [ok |-> TRUE, err |-> "", attrs |-> attrs]

\* A setAttribute that checks the name after it has written the entry.
setAttributeOf_WriteFirst(attrs, arguments) ==
    IF arguments.name.t # "str" THEN Rejected(attrs, "name must be a string")
    ELSE IF arguments.value.t \notin {"str", "ber"}
    THEN Rejected(attrs, "value must be a string or BerReader")
    ELSE IF arguments.options.tag # "Object"
    THEN Rejected(attrs, "options must be an object")
    ELSE IF ~NameAccepted(arguments.name.b)
    THEN Rejected(MapSet(attrs, arguments.name.b,
                         AttrOf(arguments.name.b, arguments.value)),
                  "attribute name must start with an ASCII alpha character or be a numeric OID")
    ELSE Accepted(MapSet(attrs, arguments.name.b,
                         WithOptions(AttrOf(arguments.name.b, arguments.value),
                                     arguments.options.props, 1)))

\* setAttribute({ name, value, options }) on the entries attrs, for
\* arguments of any type.
setAttributeOf(attrs, arguments) ==
    IF arguments.name.t # "str" THEN Rejected(attrs, "name must be a string")
    ELSE IF arguments.value.t \notin {"str", "ber"}
    THEN Rejected(attrs, "value must be a string or BerReader")
    ELSE IF arguments.options.tag # "Object"
    THEN Rejected(attrs, "options must be an object")
    ELSE IF ~NameAccepted(arguments.name.b)
    THEN Rejected(attrs,
                  "attribute name must start with an ASCII alpha character or be a numeric OID")
    ELSE Accepted(MapSet(attrs, arguments.name.b,
                         WithOptions(AttrOf(arguments.name.b, arguments.value),
                                     arguments.options.props, 1)))

\* warning.emit('LDAP_DN_DEP_001') has been called: the call reached the
\* loop over an options object that has a property.
WarnsOfOptions(arguments) ==
    /\ setAttributeOf(<<>>, arguments).ok
    /\ arguments.options.props # <<>>

\* setAttribute({ name, value }) on the entries attrs, for a string name
\* and a string or BerReader value: the new entries, or the thrown error.
setAttribute(attrs, name, value) ==
    IF ~NameAccepted(name)
    THEN Throw("attribute name must start with an ASCII alpha character or be a numeric OID", name)
    ELSE [ok |-> TRUE, attrs |-> MapSet(attrs, name, AttrOf(name, value))]

\* new RDN(rdn): setAttribute for each property of the plain object.
RECURSIVE RdnFrom(_, _, _)
RdnFrom(obj, i, attrs) ==
    IF i > Len(obj) THEN [ok |-> TRUE, attrs |-> attrs]
    ELSE IF ~NameAccepted(obj[i].name)
    THEN setAttribute(attrs, obj[i].name, obj[i].value)
    ELSE RdnFrom(obj, i + 1, setAttribute(attrs, obj[i].name, obj[i].value).attrs)

NewRdn(obj) == RdnFrom(obj, 1, <<>>)

GetValue(attrs, name) ==
    IF HasName(attrs, name)
    THEN (CHOOSE e \in {attrs[i] : i \in 1..Len(attrs)} : e.name = name).value
    ELSE [t |-> "undefined", b |-> <<>>, id |-> <<>>]

\* RDN.equals without the comparison of the sizes.
RdnEquals_NoSizeCheck(this, rdn) ==
    \A i \in 1..Len(this) :
        /\ HasName(rdn, this[i].name)
        /\ GetValue(this, this[i].name) = GetValue(rdn, this[i].name)

\* RDN.equals(rdn) for two RDN instances: values are compared with !==,
\* strings by content and objects by identity.
RdnEquals(this, rdn) ==
    /\ Len(this) = Len(rdn)
    /\ \A i \in 1..Len(this) :
          /\ HasName(rdn, this[i].name)
          /\ GetValue(this, this[i].name) = GetValue(rdn, this[i].name)

\* RDN.equals(rdn) for any argument: one whose tag is not LdapRdn is not
\* an RDN.
RdnInstance(attrs) == [tag |-> "LdapRdn", attrs |-> attrs]

RdnEqualsAny(this, argument) ==
    IF argument.tag # "LdapRdn" THEN FALSE
    ELSE RdnEquals(this, argument.attrs)

\* isHexEncodedValue: /^#([0-9a-fA-F]{2})+$/ on a string value.
isHexEncodedValue(val) ==
    /\ val.t = "str"
    /\ Len(val.b) >= 3
    /\ val.b[1] = HASH
    /\ Len(val.b) % 2 = 1
    /\ \A i \in 2..Len(val.b) : IsHexCode(val.b[i])

\* A hex encoding without padStart(2, '0').
RECURSIVE HexEncode_NoPad(_)
HexEncode_NoPad(bytes) ==
    IF bytes = <<>> THEN <<>>
    ELSE (IF bytes[1] < 16 THEN <<HexDigit(bytes[1])>>
          ELSE <<HexDigit(bytes[1] \div 16), HexDigit(bytes[1] % 16)>>)
         \o HexEncode_NoPad(Tail(bytes))

RECURSIVE HexEncode(_)
HexEncode(bytes) ==
    IF bytes = <<>> THEN <<>>
    ELSE <<HexDigit(bytes[1] \div 16), HexDigit(bytes[1] % 16)>>
         \o HexEncode(Tail(bytes))

ValueToString(val) ==
    IF isHexEncodedValue(val) THEN val.b
    ELSE IF val.t = "ber" THEN <<HASH>> \o HexEncode(val.b)
    ELSE escapeValue(val.b)

\* RDN.toString(): name=value joined by '+'.
RECURSIVE RdnJoin(_, _)
RdnJoin(attrs, i) ==
    IF i > Len(attrs) THEN <<>>
    ELSE attrs[i].attrName \o <<EQUALS>> \o ValueToString(attrs[i].value)
         \o <<PLUS>> \o RdnJoin(attrs, i + 1)

DropLast(result) == SubSeq(result, 1, Len(result) - 1)

RdnToString(attrs) == DropLast(RdnJoin(attrs, 1))

\* RDN.toString(options): toString declares no parameter, so an argument
\* passed to it is not read.
RdnToStringWith(attrs, options) == RdnToString(attrs)

\* --------------------------------------------------------------------- DN
\* A DN, by value: the sequence of its RDNs' entries, index 0 first.

\* new DN({ rdns }) for plain objects: one new RDN(r) per element.
RECURSIVE DnFrom(_, _, _)
RECURSIVE DnWith(_, _, _, _)
DnWith(objs, i, rdns, r) ==
    IF ~r.ok THEN Thrown(r) ELSE DnFrom(objs, i + 1, Append(rdns, r.attrs))

DnFrom(objs, i, rdns) ==
    IF i > Len(objs) THEN Returned(rdns)
    ELSE DnWith(objs, i, rdns, NewRdn(objs[i]))

\* new DN({ rdns }) on what parseString gave, when it returned.
DnOfParse(rdns) ==
    IF rdns.kind = "ok" THEN DnFrom(rdns.rdns, 1, <<>>) ELSE rdns

\* DN.fromString(dnString)
DnFromString(dnString, call) == DnOfParse(parseString(dnString, call))

\* DN.length and DN.isEmpty()
DnLength(rdns) == Len(rdns)

DnIsEmpty(rdns) == Len(rdns) = 0

\* DN.toString()
RECURSIVE DnJoin(_, _)
DnJoin(rdns, i) ==
    IF i > Len(rdns) THEN <<>>
    ELSE <<COMMA>> \o RdnToString(rdns[i]) \o DnJoin(rdns, i + 1)

\* result.substring(1)
DropFirst(result) == IF result = <<>> THEN <<>> ELSE Tail(result)

DnToString(rdns) == DropFirst(DnJoin(rdns, 1))

\* DN.equals(dn) for a DN argument.
DnEquals(this, dn) ==
    /\ Len(this) = Len(dn)
    /\ \A i \in 1..Len(this) : RdnEquals(this[i], dn[i])

\* DN.parentOf that compares with dn.rdnAt(i), aligned from the front.
DnParentOf_NoOffset(this, dn) ==
    IF Len(this) >= Len(dn) THEN FALSE
    ELSE \A i \in 1..Len(this) : RdnEquals(this[i], dn[i])

\* DN.parentOf whose length test lets a DN of the same length through.
DnParentOf_SameLength(this, dn) ==
    IF Len(this) > Len(dn) THEN FALSE
    ELSE LET numberOfElementsDifferent == Len(dn) - Len(this)
         IN  \A i \in 1..Len(this) :
                RdnEquals(this[i], dn[i + numberOfElementsDifferent])

\* DN.parentOf(dn) for a DN argument; the loop runs i from this.length - 1
\* down to 0 and compares with dn.rdnAt(i + numberOfElementsDifferent).
DnParentOf(this, dn) ==
    IF Len(this) >= Len(dn) THEN FALSE
    ELSE LET numberOfElementsDifferent == Len(dn) - Len(this)
         IN  \A i \in 1..Len(this) :
                RdnEquals(this[i], dn[i + numberOfElementsDifferent])

\* DN.parent() of a DN that is not empty: this.shift(), a new DN on a copy
\* of what is left, this.unshift(save).
DnParentRdns(this) == Tail(this)

\* DN.childOf(dn) for a DN argument.
DnChildOf(this, dn) == DnParentOf(dn, this)

\* equals, parentOf and childOf with a string argument parse it first; the
\* result is a boolean, or the outcome of the parse when it does not return.
Answer(b) == [kind |-> "ok", value |-> b]

EqualsParsed(this, parsedDn) ==
    IF parsedDn.kind = "ok" THEN Answer(DnEquals(parsedDn.rdns, this))
    ELSE parsedDn

ParentOfParsed(this, parsedDn) ==
    IF parsedDn.kind = "ok" THEN Answer(DnParentOf(this, parsedDn.rdns))
    ELSE parsedDn

ChildOfParsed(this, parsedDn) ==
    IF parsedDn.kind = "ok" THEN Answer(DnParentOf(parsedDn.rdns, this))
    ELSE parsedDn

DnEqualsString(this, dn, call) == EqualsParsed(this, DnFromString(dn, call))

DnParentOfString(this, dn, call) == ParentOfParsed(this, DnFromString(dn, call))

DnChildOfString(this, dn, call) == ChildOfParsed(this, DnFromString(dn, call))

\* ------------------------------------------------------------ inputs
\* The bytes parser inputs are made of: a letter that is a hex digit, a
\* digit, and the bytes the grammar gives a meaning to.
Alphabet == {97, 49, EQUALS, COMMA, SEMI, PLUS, SPACE, HASH, BACKSLASH, QUOTE}

RECURSIVE StringsUpTo(_, _)
StringsUpTo(alphabet, n) ==
    IF n = 0 THEN {<<>>}
    ELSE LET shorter == StringsUpTo(alphabet, n - 1)
         IN  shorter \cup {Append(s, c) : s \in shorter, c \in alphabet}

\* Every input is a JavaScript string: well-formed UTF-8.
Prefixes == {<<>>, <<97, EQUALS>>}

ParserInputs ==
    {p \o t : p \in Prefixes, t \in {u \in StringsUpTo(Alphabet, MaxTail) : IsUtf8(u)}}

\* ------------------------------------------------------------ state
VARIABLES
    pc,        \* the step the scenario has reached
    input,     \* the DN string under test
    pojos,     \* parseString(input)
    dn,        \* the DN under test: DN.fromString(input), or one built
               \* through the data model
    text,      \* dn.toString()
    reparsed,  \* DN.fromString(text)
    answer,    \* the result of the last query
    other,     \* the exchanged input and its parseString outcome
    rdn,       \* the RDN under test
    arg,       \* the argument of the query
    heap,      \* the RDN instances, the arrays and the DN instances
    last,      \* the last call on the heap, with the heap it was made on
    ops        \* the number of calls made on the heap

textVars == <<input, pojos, text, reparsed, other>>
queryVars == <<rdn, arg>>
heapVars == <<heap, last, ops>>

vars == <<pc, dn, answer, textVars, queryVars, heapVars>>

None == [kind |-> "none"]

NoText ==
    /\ input = <<>>
    /\ pojos = None
    /\ text = <<>>
    /\ reparsed = None
    /\ other = None

NoQuery ==
    /\ rdn = None
    /\ arg = None

NoHeap ==
    /\ heap = None
    /\ last = None
    /\ ops = 0

\* ------------------------------------------- text -> structure -> text
ParseInit ==
    /\ pc = "start"
    /\ input \in ParserInputs
    /\ pojos = None
    /\ dn = None
    /\ text = <<>>
    /\ reparsed = None
    /\ answer = None
    /\ other = None
    /\ NoQuery
    /\ NoHeap

\* const dn = DN.fromString(input)
CallFromString ==
    /\ pc = "start"
    /\ pojos' = parseString(input, 1)
    /\ dn' = DnFromString(input, 1)
    /\ pc' = "parsed"
    /\ UNCHANGED <<input, text, reparsed, answer, other>>
    /\ UNCHANGED <<queryVars, heapVars>>

\* const text = dn.toString()
CallToString ==
    /\ pc = "parsed"
    /\ dn.kind = "ok"
    /\ text' = DnToString(dn.rdns)
    /\ pc' = "printed"
    /\ UNCHANGED <<input, pojos, dn, reparsed, answer, other>>
    /\ UNCHANGED <<queryVars, heapVars>>

\* DN.fromString(text)
CallFromStringAgain ==
    /\ pc = "printed"
    /\ reparsed' = DnFromString(text, 2)
    /\ pc' = "reparsed"
    /\ UNCHANGED <<input, pojos, dn, text, answer, other>>
    /\ UNCHANGED <<queryVars, heapVars>>

\* dn.equals(input)
CallEqualsInput ==
    /\ pc = "parsed"
    /\ dn.kind = "ok"
    /\ answer' = DnEqualsString(dn.rdns, input, 2)
    /\ pc' = "compared"
    /\ UNCHANGED <<input, pojos, dn, text, reparsed, other>>
    /\ UNCHANGED <<queryVars, heapVars>>

\* A ',' or ';' that no quote and no backslash precedes is outside every
\* quoted value and every escape sequence.
Exchangeable(s, i) ==
    /\ s[i] \in {COMMA, SEMI}
    /\ \A j \in 1..(i - 1) : s[j] \notin {QUOTE, BACKSLASH}

Exchange(s, i) == [s EXCEPT ![i] = IF s[i] = COMMA THEN SEMI ELSE COMMA]

\* parseString of the input with the separator at i exchanged.
CallParseExchanged(i) ==
    /\ pc = "parsed"
    /\ Exchangeable(input, i)
    /\ other' = [kind |-> "exchanged", at |-> i, input |-> Exchange(input, i),
                 result |-> parseString(Exchange(input, i), 1)]
    /\ pc' = "exchanged"
    /\ UNCHANGED <<input, pojos, dn, text, reparsed, answer>>
    /\ UNCHANGED <<queryVars, heapVars>>

\* parseString of the accepted input followed by one more byte.
CallParseAppended(c) ==
    /\ pc = "parsed"
    /\ pojos.kind = "ok"
    /\ other' = [kind |-> "appended", byte |-> c,
                 result |-> parseString(Append(input, c), 1)]
    /\ pc' = "appended"
    /\ UNCHANGED <<input, pojos, dn, text, reparsed, answer>>
    /\ UNCHANGED <<queryVars, heapVars>>

ParseNext ==
    \/ CallFromString
    \/ CallToString
    \/ CallFromStringAgain
    \/ CallEqualsInput
    \/ \E i \in 1..Len(input) : CallParseExchanged(i)
    \/ \E c \in {PLUS, COMMA, SEMI} : CallParseAppended(c)

SpecParse == ParseInit /\ [][ParseNext]_vars

\* C1: for every DN string the parser accepts, DN.fromString(s).toString()
\* is accepted again and the DN it gives equals DN.fromString(s).
C1_RoundTripFromText ==
    pc = "reparsed" =>
        /\ reparsed.kind = "ok"
        /\ DnEquals(reparsed.rdns, dn.rdns)

\* C3: for every string s the parser accepts, DN.fromString(s).equals(s)
\* returns true.
C3_EqualsOwnString == pc = "compared" => answer = Answer(TRUE)

\* Two parseString outcomes are the same: the identical list of mappings,
\* or no list from either.
SameOutcome(r1, r2) ==
    IF r1.kind = "ok" \/ r2.kind = "ok" THEN r1 = r2 ELSE TRUE

\* C10: exchanging a ',' for a ';' (or back) outside quotes and escape
\* sequences gives the same outcome from parseString.
C10_SeparatorsInterchangeable ==
    pc = "exchanged" => SameOutcome(pojos, other.result)

\* parseString threw the error for a string that ends with a separator.
EndsAbruptly(r, c) ==
    /\ r.kind = "throw"
    /\ r.err = "rdn string ends abruptly with character: "
    /\ r.detail = c

\* C11: for every accepted string s and every separator c, parseString(s
\* followed by c) throws 'rdn string ends abruptly with character: '
\* followed by c (after the empty string, whose one separator is met as
\* the start of a name, it is enough that it throws).
C11_TrailingSeparatorAfterText ==
    pc = "appended" =>
        IF input # <<>> THEN EndsAbruptly(other.result, other.byte)
        ELSE other.result.kind = "throw"

\* The pieces of s between the bytes of seps, in order.
RECURSIVE SplitAt(_, _, _)
SplitAt(s, seps, piece) ==
    IF s = <<>> THEN <<piece>>
    ELSE IF s[1] \in seps THEN <<piece>> \o SplitAt(Tail(s), seps, <<>>)
    ELSE SplitAt(Tail(s), seps, Append(piece, s[1]))

\* The name and the value of the text name=value.
FirstEquals(s) == CHOOSE i \in 1..Len(s) : s[i] = EQUALS /\ \A j \in 1..(i - 1) : s[j] # EQUALS

PairOfText(s) ==
    [name |-> SubSeq(s, 1, FirstEquals(s) - 1),
     value |-> StrValue(SubSeq(s, FirstEquals(s) + 1, Len(s)))]

\* The pairs collected in input order: a name that occurs again keeps its
\* place and takes the later value.
RECURSIVE Collected(_, _, _)
Collected(pairs, i, seen) ==
    IF i > Len(pairs) THEN seen
    ELSE Collected(pairs, i + 1,
            IF \E k \in 1..Len(seen) : seen[k].name = pairs[i].name
            THEN [k \in 1..Len(seen) |->
                    IF seen[k].name = pairs[i].name THEN pairs[i] ELSE seen[k]]
            ELSE Append(seen, pairs[i]))

PairsOfText(s) ==
    [k \in 1..Len(SplitAt(s, {PLUS}, <<>>)) |-> PairOfText(SplitAt(s, {PLUS}, <<>>)[k])]

RdnsOfText(s) ==
    [k \in 1..Len(SplitAt(s, {COMMA, SEMI}, <<>>)) |->
        Collected(PairsOfText(SplitAt(s, {COMMA, SEMI}, <<>>)[k]), 1, <<>>)]

\* A text of name=value pairs with nothing quoted, escaped, hex-encoded or
\* padded: every piece between separators has a name before its '='.
IsPlainText(s) ==
    /\ s # <<>>
    /\ \A i \in 1..Len(s) : s[i] \notin {QUOTE, BACKSLASH, HASH, SPACE}
    /\ \A i \in 1..(Len(s) + 1) :
          (i = 1 \/ s[i - 1] \in {PLUS, COMMA, SEMI})
              => /\ i <= Len(s)
                 /\ s[i] \notin {PLUS, COMMA, SEMI, EQUALS}
                 /\ \E j \in (i + 1)..Len(s) :
                       /\ s[j] = EQUALS
                       /\ \A k \in i..j : s[k] \notin {PLUS, COMMA, SEMI}

\* C12: the pairs joined by '+' are collected into one RDN in input order,
\* a ',' or ';' starts the next RDN, the RDNs are in input order, and a
\* name that occurs again in an RDN takes the later value and appears once.
C12_PairsInInputOrder ==
    (pc = "parsed" /\ pojos.kind = "ok" /\ IsPlainText(input))
        => pojos.rdns = RdnsOfText(input)

\* C13: parseString('') returns the empty list, and DN.fromString('') has
\* length 0, isEmpty() true and toString() ''; every accepted string that
\* is not empty gives at least one RDN, and every RDN has at least one
\* attribute.
C13_EmptyInputOnly ==
    /\ (pc \in {"parsed", "printed"} /\ input = <<>>) =>
          /\ pojos = Returned(<<>>)
          /\ dn.kind = "ok"
          /\ DnLength(dn.rdns) = 0
          /\ DnIsEmpty(dn.rdns)
    /\ (pc = "printed" /\ input = <<>>) => text = <<>>
    /\ (pc \in {"parsed", "printed"} /\ input # <<>> /\ pojos.kind = "ok") =>
          /\ Len(pojos.rdns) >= 1
          /\ \A i \in 1..Len(pojos.rdns) : Len(pojos.rdns[i]) >= 1
          /\ dn.kind = "ok" =>
                /\ ~DnIsEmpty(dn.rdns)
                /\ \A i \in 1..Len(dn.rdns) : Len(dn.rdns[i]) >= 1

\* The empty string has been parsed and the empty DN printed.
C13_Witness ==
    /\ pc = "printed"
    /\ input = <<>>
    /\ DnIsEmpty(dn.rdns)
    /\ text = <<>>

\* ------------------------------------------- structure -> text -> structure
\* DNs built through the data model: new DN({ rdns: [{ name: value }] })
\* and its variants with two RDNs or two attributes.  The names pass the
\* parser's validator; the values are all the strings over the alphabet.
DataNames == {n \in {<<97>>, <<49>>} : isValidAttributeTypeName(n)}

DataValues(n) == {StrValue(v) : v \in {u \in StringsUpTo(Alphabet, n) : IsUtf8(u)}}

Pair(n, v) == <<[name |-> n, value |-> v]>>

DataObjects ==
    {<<Pair(n, v)>> : n \in DataNames, v \in DataValues(MaxValLen)}
    \cup {<<Pair(n1, v1), Pair(n2, v2)>> :
            n1 \in DataNames, n2 \in DataNames,
            v1 \in DataValues(MaxValLen - 1), v2 \in DataValues(MaxValLen - 1)}
    \cup {<<Pair(ns[1], v1) \o Pair(ns[2], v2)>> :
            ns \in {m \in DataNames \X DataNames : m[1] # m[2]},
            v1 \in DataValues(MaxValLen - 1), v2 \in DataValues(MaxValLen - 1)}

DataInit ==
    /\ pc = "parsed"
    /\ input = <<>>
    /\ pojos = None
    /\ \E objs \in DataObjects : dn = DnFrom(objs, 1, <<>>)
    /\ text = <<>>
    /\ reparsed = None
    /\ answer = None
    /\ other = None
    /\ NoQuery
    /\ NoHeap

DataNext ==
    \/ CallToString
    \/ CallFromStringAgain

SpecData == DataInit /\ [][DataNext]_vars

\* The names and values an RDN holds.
Entries(attrs) == {attrs[i] : i \in 1..Len(attrs)}

\* C2: for every DN built through the data model with names the parser
\* accepts and string values, DN.fromString(dn.toString()) succeeds and
\* gives a DN of the same length whose RDN at each position has exactly the
\* same names and the same string values.
C2_RoundTripFromStructure ==
    pc = "reparsed" =>
        /\ reparsed.kind = "ok"
        /\ Len(reparsed.rdns) = Len(dn.rdns)
        /\ \A i \in 1..Len(dn.rdns) :
              Entries(reparsed.rdns[i]) = Entries(dn.rdns[i])

\* ----------------------------------------------------------- RDN.equals
\* Two RDNs are built attribute by attribute, in any order and with
\* overwrites, and compared; the argument may also be something that is
\* not an RDN: a plain object built the same way, a string, undefined.
RdnNames == {<<97>>, <<98>>}

RdnValues == {StrValue(<<120>>), StrValue(<<88>>)}

PlainObject(obj) == [tag |-> "Object", attrs |-> obj]

RdnArguments ==
    {RdnInstance(<<>>), PlainObject(<<>>),
     [tag |-> "String", attrs |-> <<>>], [tag |-> "Undefined", attrs |-> <<>>]}

RdnInit ==
    /\ pc = "build"
    /\ dn = None
    /\ answer = None
    /\ rdn = RdnInstance(<<>>)
    /\ arg \in RdnArguments
    /\ NoText
    /\ NoHeap

\* rdn.setAttribute({ name, value })
CallSetAttribute(name, value) ==
    /\ pc = "build"
    /\ rdn' = RdnInstance(setAttribute(rdn.attrs, name, value).attrs)
    /\ UNCHANGED <<pc, dn, answer, arg, textVars, heapVars>>

\* arg.setAttribute({ name, value }) on an argument that is an RDN
CallSetAttributeOfArg(name, value) ==
    /\ pc = "build"
    /\ arg.tag = "LdapRdn"
    /\ arg' = RdnInstance(setAttribute(arg.attrs, name, value).attrs)
    /\ UNCHANGED <<pc, dn, answer, rdn, textVars, heapVars>>

\* arg[name] = value on an argument that is a plain object
AssignToArg(name, value) ==
    /\ pc = "build"
    /\ arg.tag = "Object"
    /\ arg' = PlainObject(ObjectSet(arg.attrs, name, value))
    /\ UNCHANGED <<pc, dn, answer, rdn, textVars, heapVars>>

\* rdn.equals(arg), and arg.equals(rdn) when arg is an RDN
CallRdnEquals ==
    /\ pc = "build"
    /\ answer' = [kind |-> "ok",
                  value |-> RdnEqualsAny(rdn.attrs, arg),
                  back |-> IF arg.tag = "LdapRdn"
                           THEN Answer(RdnEqualsAny(arg.attrs, rdn))
                           ELSE None]
    /\ pc' = "compared"
    /\ UNCHANGED <<dn, rdn, arg, textVars, heapVars>>

RdnNext ==
    \/ \E name \in RdnNames, value \in RdnValues : CallSetAttribute(name, value)
    \/ \E name \in RdnNames, value \in RdnValues : CallSetAttributeOfArg(name, value)
    \/ \E name \in RdnNames, value \in RdnValues : AssignToArg(name, value)
    \/ CallRdnEquals

SpecRdn == RdnInit /\ [][RdnNext]_vars

\* C4: for RDNs a and b holding string values, a.equals(b) is true exactly
\* when a and b have the same attribute names and each name has the same
\* case-sensitive value in both, whatever the order the attributes were set
\* in; it is false for an argument that is not an RDN; and
\* a.equals(b) = b.equals(a).
C4_RdnEqualsStructural ==
    pc = "compared" =>
        /\ answer.value = (arg.tag = "LdapRdn" /\ Entries(rdn.attrs) = Entries(arg.attrs))
        /\ arg.tag = "LdapRdn" => answer.back = Answer(answer.value)

\* Two RDNs with two attributes each, set in different orders, are equal.
C4_Witness ==
    /\ pc = "compared"
    /\ arg.tag = "LdapRdn"
    /\ Len(rdn.attrs) = 2
    /\ rdn.attrs # arg.attrs
    /\ answer.value

\* ------------------------------------------------------ parentOf, childOf
\* Two DNs A (dn) and B (arg) made of RDNs with string values: one plain,
\* one whose value starts with a space, and one with two attributes in
\* either order.
HierObjects ==
    {Pair(<<97>>, StrValue(<<120>>)),
     Pair(<<97>>, StrValue(<<SPACE, 120>>)),
     Pair(<<97>>, StrValue(<<120>>)) \o Pair(<<98>>, StrValue(<<121>>)),
     Pair(<<98>>, StrValue(<<121>>)) \o Pair(<<97>>, StrValue(<<120>>))}

HierDns == {DnFrom(objs, 1, <<>>) : objs \in StringsUpTo(HierObjects, MaxDnLen)}

DnInstance(rdns) == [tag |-> "LdapDn", rdns |-> rdns]

HierInit ==
    /\ pc = "build"
    /\ dn \in HierDns
    /\ \E b \in HierDns : arg = DnInstance(b.rdns)
    /\ rdn = None
    /\ answer = None
    /\ NoText
    /\ NoHeap

\* A.parentOf(B), B.childOf(A), A.parentOf(B.toString()) and
\* B.childOf(A.toString())
CallParentOfAndChildOf ==
    /\ pc = "build"
    /\ answer' = [kind |-> "ok",
                  parentOf |-> DnParentOf(dn.rdns, arg.rdns),
                  childOf |-> DnChildOf(arg.rdns, dn.rdns),
                  parentOfString |-> DnParentOfString(dn.rdns, DnToString(arg.rdns), 1),
                  childOfString |-> DnChildOfString(arg.rdns, DnToString(dn.rdns), 2)]
    /\ pc' = "compared"
    /\ UNCHANGED <<dn, textVars, queryVars, heapVars>>

\* dn.equals(B)
CallEqualsArg ==
    /\ pc = "build"
    /\ answer' = [kind |-> "ok", equals |-> DnEquals(dn.rdns, arg.rdns)]
    /\ pc' = "equated"
    /\ UNCHANGED <<dn, textVars, queryVars, heapVars>>

HierNext ==
    \/ CallParentOfAndChildOf
    \/ CallEqualsArg

SpecHier == HierInit /\ [][HierNext]_vars

\* A is a proper suffix of B: B is longer and, aligned at the last RDN,
\* every RDN of A has the names and values of the RDN of B it meets.
ProperSuffix(A, B) ==
    /\ Len(B) > Len(A)
    /\ \A i \in 1..Len(A) : Entries(A[i]) = Entries(B[Len(B) - Len(A) + i])

ProperSuffixOfParsed(A, parsedDn) ==
    IF parsedDn.kind = "ok" THEN Answer(ProperSuffix(A, parsedDn.rdns))
    ELSE parsedDn

\* C5: A.parentOf(B) is true exactly when A is a proper suffix of B (false
\* when A is as long as B or longer), and a string argument is parsed
\* first.
C5_ParentOfIsProperSuffix ==
    pc = "compared" =>
        /\ answer.parentOf = ProperSuffix(dn.rdns, arg.rdns)
        /\ answer.parentOfString =
              ProperSuffixOfParsed(dn.rdns, DnFromString(DnToString(arg.rdns), 1))

\* A one-RDN parent of a two-RDN child, whose RDN lists its attributes in
\* the other order.
C5_Witness ==
    /\ pc = "compared"
    /\ Len(dn.rdns) = 1
    /\ Len(arg.rdns) = 2
    /\ dn.rdns[1] # arg.rdns[2]
    /\ answer.parentOf
    /\ answer.parentOfString = Answer(TRUE)

\* C6: A.parentOf(B) = B.childOf(A) for all DNs A and B, and the result is
\* the same when the argument is the string form of the DN.
C6_ParentOfChildOfInverse ==
    pc = "compared" =>
        /\ answer.parentOf = answer.childOf
        /\ answer.parentOfString = Answer(answer.parentOf)
        /\ answer.childOfString = Answer(answer.childOf)

\* ------------------------------------------------------- object identity
\* The heap: RDN instances (rdnObjs[r] is the entries of instance r), arrays
\* (arrays[a] is a list of RDN instances) and DN instances (dnObjs[d].rdns
\* is the array that is the #rdns of instance d).

Length(h, d) == Len(h.arrays[h.dnObjs[d].rdns])

\* The RDN instances of DN d, index 0 first.
RdnsOf(h, d) == h.arrays[h.dnObjs[d].rdns]

\* DN d by value: the entries of its RDNs.
ValueOf(h, d) == [i \in 1..Length(h, d) |-> h.rdnObjs[RdnsOf(h, d)[i]]]

\* What a call gives: the heap it leaves, the value it returns, and the
\* message of the error when it throws ("" when it returns).
Result(h, res) == [heap |-> h, res |-> res, err |-> ""]

Raised(h, msg) == [heap |-> h, res |-> Undef, err |-> msg]

\* The values a caller can pass where an RDN is expected: an RDN instance
\* of the heap, a plain object (its properties in order), a number; and an
\* array of such values.
RdnArg(r) == [t |-> "rdn", id |-> r, props |-> <<>>]

ObjectArg(props) == [t |-> "object", id |-> 0, props |-> props]

NumberArg == [t |-> "number", id |-> 0, props |-> <<>>]

ArrayArg(items) == [t |-> "array", id |-> 0, props |-> items]

NoArg == [t |-> "none", id |-> 0, props |-> <<>>]

\* typeof rdn[key] === 'string'
PropIsString(props, key) ==
    \E i \in 1..Len(props) : props[i].name = key /\ props[i].value.t = "str"

NameKey == <<110, 97, 109, 101>>

ValueKey == <<118, 97, 108, 117, 101>>

\* RDN.isRdn(rdn)
isRdn(elem) ==
    IF elem.t = "rdn" THEN TRUE
    ELSE IF elem.t # "object" THEN FALSE
    ELSE IF PropIsString(elem.props, NameKey) /\ PropIsString(elem.props, ValueKey)
    THEN TRUE
    ELSE \A i \in 1..Len(elem.props) : elem.props[i].value.t \in {"str", "ber"}

\* new RDN(rdn) for a plain object with values of any type: setAttribute
\* for each property, up to the first that throws.
RECURSIVE RdnOfEntries(_, _, _)
RECURSIVE NextEntry(_, _, _)
RdnOfEntries(props, i, attrs) ==
    IF i > Len(props) THEN Accepted(attrs)
    ELSE NextEntry(props, i,
                   setAttributeOf(attrs, [name |-> StrValue(props[i].name),
                                          value |-> props[i].value,
                                          options |-> OptionsObject(<<>>)]))

NextEntry(props, i, set) ==
    IF ~set.ok THEN set ELSE RdnOfEntries(props, i + 1, set.attrs)

NewRdnOf(props) == RdnOfEntries(props, 1, <<>>)

\* new DN({ rdns }) on an array of RDN instances: each instance is kept
\* as it is, and pushed on the new instance's own array.
DnConstruct(h, rdns) ==
    Result([h EXCEPT !.arrays = Append(@, rdns),
                     !.dnObjs = Append(@, [rdns |-> Len(h.arrays) + 1])],
           Len(h.dnObjs) + 1)

\* A clone that takes the #rdns array of its source for its own.
DnClone_SameArray(h, d) ==
    Result([h EXCEPT !.dnObjs = Append(@, [rdns |-> h.dnObjs[d].rdns])],
           Len(h.dnObjs) + 1)

DnClone(h, d) == DnConstruct(h, RdnsOf(h, d))

\* rdns.map(...): an RDN instance is kept, anything else goes through
\* new RDN(r); an error thrown by new RDN leaves the constructor, and the
\* heap h0 it was called on has no new DN.
RECURSIVE MapRdns(_, _, _, _, _)
RECURSIVE Mapped(_, _, _, _, _, _)
MapRdns(h0, h, items, i, ids) ==
    IF i > Len(items) THEN DnConstruct(h, ids)
    ELSE IF items[i].t = "rdn"
    THEN MapRdns(h0, h, items, i + 1, Append(ids, items[i].id))
    ELSE Mapped(h0, h, items, i, ids, NewRdnOf(items[i].props))

Mapped(h0, h, items, i, ids, made) ==
    IF ~made.ok THEN Raised(h0, made.err)
    ELSE MapRdns(h0, [h EXCEPT !.rdnObjs = Append(@, made.attrs)], items, i + 1,
                 Append(ids, Len(h.rdnObjs) + 1))

\* new DN({ rdns }) for an argument of any type.
DnConstructOf(h, rdns) ==
    IF rdns.t # "array" THEN Raised(h, "rdns must be an array")
    ELSE IF \E i \in 1..Len(rdns.props) : ~isRdn(rdns.props[i])
    THEN Raised(h, "rdns must be an array of RDN objects")
    ELSE MapRdns(h, h, rdns.props, 1, <<>>)

DnShift(h, d) ==
    IF Length(h, d) = 0 THEN Result(h, Undef)
    ELSE Result([h EXCEPT !.arrays[h.dnObjs[d].rdns] = Tail(@)], RdnsOf(h, d)[1])

DnUnshift(h, d, r) ==
    Result([h EXCEPT !.arrays[h.dnObjs[d].rdns] = <<r>> \o @], Length(h, d) + 1)

\* A pop that removes the first RDN.
DnPop_FromFront(h, d) ==
    IF Length(h, d) = 0 THEN Result(h, Undef)
    ELSE Result([h EXCEPT !.arrays[h.dnObjs[d].rdns] = Tail(@)], RdnsOf(h, d)[1])

DnPop(h, d) ==
    IF Length(h, d) = 0 THEN Result(h, Undef)
    ELSE Result([h EXCEPT !.arrays[h.dnObjs[d].rdns] = DropLast(@)],
                RdnsOf(h, d)[Length(h, d)])

DnPush(h, d, r) ==
    Result([h EXCEPT !.arrays[h.dnObjs[d].rdns] = Append(@, r)], Length(h, d) + 1)

\* A push that takes what the constructor takes: RDN-like objects are
\* made into RDN instances.
DnPushOf_RdnLike(h, d, elem) ==
    IF elem.t = "rdn" THEN DnPush(h, d, elem.id)
    ELSE IF ~isRdn(elem) \/ ~NewRdnOf(elem.props).ok
    THEN Raised(h, "rdn must be a RDN instance")
    ELSE DnPush([h EXCEPT !.rdnObjs = Append(@, NewRdnOf(elem.props).attrs)], d,
                Len(h.rdnObjs) + 1)

\* dn.push(rdn) for an argument of any type.
DnPushOf(h, d, elem) ==
    IF elem.t # "rdn" THEN Raised(h, "rdn must be a RDN instance")
    ELSE DnPush(h, d, elem.id)

\* dn.unshift(rdn) for an argument of any type.
DnUnshiftOf(h, d, elem) ==
    IF elem.t # "rdn" THEN Raised(h, "rdn must be a RDN instance")
    ELSE DnUnshift(h, d, elem.id)

Reversed(list) == [i \in 1..Len(list) |-> list[Len(list) + 1 - i]]

DnReverse(h, d) ==
    Result([h EXCEPT !.arrays[h.dnObjs[d].rdns] = Reversed(@)], d)

\* parent() after this.shift(): the new DN, then this.unshift(save).
ParentAfterShift(d, save, made) ==
    Result(DnUnshift(made.heap, d, save).heap, made.res)

\* A parent() that does not put the RDN it removed back.
DnParent_NoUnshift(h, d) ==
    IF Length(h, d) = 0 THEN Result(h, Undef)
    ELSE DnConstruct(DnShift(h, d).heap, Tail(RdnsOf(h, d)))

DnParent(h, d) ==
    IF Length(h, d) = 0 THEN Result(h, Undef)
    ELSE ParentAfterShift(d, DnShift(h, d).res,
                          DnConstruct(DnShift(h, d).heap, RdnsOf(DnShift(h, d).heap, d)))

\* dn.rdnAt(index).setAttribute({ name, value })
RdnAtSetAttribute(h, d, index, name, value) ==
    Result([h EXCEPT !.rdnObjs[RdnsOf(h, d)[index + 1]] =
                         setAttribute(@, name, value).attrs],
           Undef)

\* The heap to start from: two RDN instances and a DN made of them.
InitialRdns ==
    <<NewRdn(Pair(<<97>>, StrValue(<<120>>))).attrs,
      NewRdn(Pair(<<97>>, StrValue(<<121>>))).attrs>>

InitialLists == StringsUpTo(DOMAIN InitialRdns, Len(InitialRdns))

EmptyHeap == [rdnObjs |-> InitialRdns, arrays |-> <<>>, dnObjs |-> <<>>]

\* The arrays a caller passes to the constructor, and the values other
\* than RDN instances a caller passes to push and unshift.
NameValueObject ==
    ObjectArg(<<[name |-> NameKey, value |-> StrValue(<<97>>)],
                [name |-> ValueKey, value |-> StrValue(<<120>>)]>>)

NotAString == [t |-> "number", b |-> <<>>, id |-> <<>>]

ConstructorInputs ==
    <<NumberArg,
      ArrayArg(<<ObjectArg(Pair(<<98>>, StrValue(<<120>>))), RdnArg(1)>>),
      ArrayArg(<<RdnArg(2), ObjectArg(Pair(<<98>>, NotAString))>>),
      ArrayArg(<<NameValueObject>>),
      ArrayArg(<<ObjectArg(Pair(<<51, 97>>, StrValue(<<120>>)))>>),
      ArrayArg(<<ObjectArg(NameValueObject.props \o Pair(<<122>>, NotAString))>>)>>

NonRdnArgs == <<NameValueObject, NumberArg>>

Call(op, d, elem, result) ==
    [op |-> op, dn |-> d, arg |-> elem, res |-> result.res, err |-> result.err]

HeapInit ==
    /\ pc = "heap"
    /\ dn = None
    /\ answer = None
    /\ \E rdns \in InitialLists : heap = DnConstruct(EmptyHeap, rdns).heap
    /\ last = [call |-> Call("new", 0, NoArg, Result(EmptyHeap, 1)),
               before |-> EmptyHeap,
               after |-> Call("none", 0, NoArg, Result(EmptyHeap, 0))]
    /\ ops = 0
    /\ NoText
    /\ NoQuery

\* One call on the heap: the heap and the result it gives are recorded
\* with the heap the call was made on and the call that came before.
Step(op, d, elem, result) ==
    /\ ops < MaxOps
    /\ heap' = result.heap
    /\ last' = [call |-> Call(op, d, elem, result), before |-> heap,
                after |-> last.call]
    /\ ops' = ops + 1
    /\ UNCHANGED <<pc, dn, answer, textVars, queryVars>>

CallNew(rdns) == Step("new", 0, rdns, DnConstructOf(heap, rdns))

CallClone(d) == Step("clone", d, NoArg, DnClone(heap, d))

CallParent(d) == Step("parent", d, NoArg, DnParent(heap, d))

CallPush(d, elem) == Step("push", d, elem, DnPushOf(heap, d, elem))

CallUnshift(d, elem) == Step("unshift", d, elem, DnUnshiftOf(heap, d, elem))

CallPop(d) == Step("pop", d, NoArg, DnPop(heap, d))

CallShift(d) == Step("shift", d, NoArg, DnShift(heap, d))

CallReverse(d) == Step("reverse", d, NoArg, DnReverse(heap, d))

CallRdnAtSetAttribute(d, index, value) ==
    /\ index < Length(heap, d)
    /\ Step("setAttribute", d, NoArg,
            RdnAtSetAttribute(heap, d, index, <<97>>, value))

HeapValues == {StrValue(<<120>>), StrValue(<<122>>)}

HeapNext ==
    \/ \E k \in DOMAIN ConstructorInputs : CallNew(ConstructorInputs[k])
    \/ \E d \in DOMAIN heap.dnObjs : CallClone(d)
    \/ \E d \in DOMAIN heap.dnObjs : CallParent(d)
    \/ \E d \in DOMAIN heap.dnObjs, r \in DOMAIN heap.rdnObjs : CallPush(d, RdnArg(r))
    \/ \E d \in DOMAIN heap.dnObjs, k \in DOMAIN NonRdnArgs : CallPush(d, NonRdnArgs[k])
    \/ \E d \in DOMAIN heap.dnObjs, r \in DOMAIN heap.rdnObjs : CallUnshift(d, RdnArg(r))
    \/ \E d \in DOMAIN heap.dnObjs, k \in DOMAIN NonRdnArgs : CallUnshift(d, NonRdnArgs[k])
    \/ \E d \in DOMAIN heap.dnObjs : CallPop(d)
    \/ \E d \in DOMAIN heap.dnObjs : CallShift(d)
    \/ \E d \in DOMAIN heap.dnObjs : CallReverse(d)
    \/ \E d \in DOMAIN heap.dnObjs :
          \E index \in 0..(Length(heap, d) - 1), value \in HeapValues :
              CallRdnAtSetAttribute(d, index, value)

SpecHeap == HeapInit /\ [][HeapNext]_vars

IsNewDn(d) == d \in DOMAIN heap.dnObjs \ DOMAIN last.before.dnObjs

\* C7: d.parent() on a non-empty DN returns a distinct DN p with
\* p.length = d.length - 1 and p.rdnAt(i) = d.rdnAt(i + 1), and d has the
\* RDNs it had, at the same positions; on an empty DN it returns undefined
\* and leaves it empty.
C7_ParentKeepsReceiver ==
    last.call.op = "parent" =>
        /\ RdnsOf(heap, last.call.dn) = RdnsOf(last.before, last.call.dn)
        /\ ValueOf(heap, last.call.dn) = ValueOf(last.before, last.call.dn)
        /\ IF Length(last.before, last.call.dn) = 0
           THEN last.call.res = Undef /\ heap = last.before
           ELSE /\ IsNewDn(last.call.res)
                /\ heap.dnObjs[last.call.res].rdns # heap.dnObjs[last.call.dn].rdns
                /\ Length(heap, last.call.res) = Length(heap, last.call.dn) - 1
                /\ \A i \in 1..Length(heap, last.call.res) :
                      RdnsOf(heap, last.call.res)[i] = RdnsOf(heap, last.call.dn)[i + 1]

\* parent() of a DN with two different RDN instances has returned.
C7_Witness ==
    /\ last.call.op = "parent"
    /\ Length(heap, last.call.dn) = 2
    /\ RdnsOf(heap, last.call.dn)[1] # RdnsOf(heap, last.call.dn)[2]
    /\ Length(heap, last.call.res) = 1

\* The RDN instances two DNs have in common.
Shared(h, d, e) ==
    {RdnsOf(h, d)[i] : i \in 1..Length(h, d)}
        \cap {RdnsOf(h, e)[i] : i \in 1..Length(h, e)}

\* C8: after c = d.clone() no RDN instance is shared between d and c, and
\* setAttribute on an RDN obtained from c.rdnAt(i) does not change
\* d.toString().
C8_CloneHasNewRdns ==
    /\ last.call.op = "clone" => Shared(heap, last.call.dn, last.call.res) = {}
    /\ (/\ last.call.op = "setAttribute"
        /\ last.after.op = "clone"
        /\ last.call.dn = last.after.res)
       => DnToString(ValueOf(heap, last.after.dn))
              = DnToString(ValueOf(last.before, last.after.dn))

ListOps == {"push", "unshift", "pop", "shift", "reverse"}

\* C9: after c = d.clone(), c has the length and the toString of d; and
\* push, unshift, pop, shift and reverse on a DN leave the length, the RDN
\* at each position and the toString of every other DN as they were, so
\* those on c leave d, and those on d leave c.
C9_CloneHasNewList ==
    /\ last.call.op = "clone" =>
          /\ IsNewDn(last.call.res)
          /\ Length(heap, last.call.res) = Length(heap, last.call.dn)
          /\ DnToString(ValueOf(heap, last.call.res))
                = DnToString(ValueOf(heap, last.call.dn))
    /\ last.call.op \in ListOps =>
          \A e \in DOMAIN heap.dnObjs \ {last.call.dn} :
              /\ RdnsOf(heap, e) = RdnsOf(last.before, e)
              /\ DnToString(ValueOf(heap, e)) = DnToString(ValueOf(last.before, e))

\* A push, unshift, pop, shift or reverse that changed the clone it was
\* called on, right after the clone was made.
C9_Witness ==
    /\ last.call.op \in ListOps
    /\ last.after.op = "clone"
    /\ last.call.dn = last.after.res
    /\ RdnsOf(heap, last.call.dn) # RdnsOf(last.before, last.call.dn)
    /\ Length(heap, last.after.dn) > 0

\* Every element a DN holds is an RDN instance of the heap.
HoldsRdnInstances(h) ==
    \A d \in DOMAIN h.dnObjs :
        \A i \in 1..Length(h, d) : RdnsOf(h, d)[i] \in DOMAIN h.rdnObjs

\* Element i of the array given to the constructor is held at index i of
\* the new DN: the instance itself, or an RDN instance made for it.
StoredInOrder(h, before, d, items) ==
    /\ Length(h, d) = Len(items)
    /\ \A i \in 1..Len(items) :
          IF items[i].t = "rdn" THEN RdnsOf(h, d)[i] = items[i].id
          ELSE RdnsOf(h, d)[i] \in DOMAIN h.rdnObjs \ DOMAIN before.rdnObjs

\* C19: the constructor throws 'rdns must be an array' for an argument
\* that is not an array, throws when an element is not RDN-like, and
\* otherwise makes a DN that holds one RDN instance per element in the
\* order of the array; and after any sequence of new, push, unshift, pop,
\* shift, reverse, parent and clone every element of every DN is an RDN
\* instance.
C19_ElementsAreRdns ==
    /\ HoldsRdnInstances(heap)
    /\ (last.call.op = "new" /\ last.call.arg.t # "none") =>
          IF last.call.arg.t # "array"
          THEN last.call.err = "rdns must be an array" /\ heap = last.before
          ELSE IF \E i \in 1..Len(last.call.arg.props) : ~isRdn(last.call.arg.props[i])
          THEN last.call.err # "" /\ heap = last.before
          ELSE /\ last.call.err = ""
               /\ IsNewDn(last.call.res)
               /\ StoredInOrder(heap, last.before, last.call.res, last.call.arg.props)

\* C20: push and unshift with an argument that is not an RDN instance, a
\* plain object the constructor accepts included, throw 'rdn must be a RDN
\* instance' and leave the length and the elements of the DN, and the
\* heap, as they were.
C20_PushRejectsNonRdn ==
    (last.call.op \in {"push", "unshift"} /\ last.call.arg.t # "rdn") =>
        /\ last.call.err = "rdn must be a RDN instance"
        /\ Length(heap, last.call.dn) = Length(last.before, last.call.dn)
        /\ RdnsOf(heap, last.call.dn) = RdnsOf(last.before, last.call.dn)
        /\ heap = last.before

\* push of a plain name/value object on a DN that holds an RDN has thrown.
C20_Witness ==
    /\ last.call.op = "push"
    /\ last.call.arg.t = "object"
    /\ isRdn(last.call.arg)
    /\ PropIsString(last.call.arg.props, NameKey)
    /\ last.call.err = "rdn must be a RDN instance"
    /\ Length(heap, last.call.dn) > 0

\* The call before the last one was op on the DN of the last call, and
\* it returned.
FollowsOnSameDn(op) ==
    /\ last.after.op = op
    /\ last.after.dn = last.call.dn
    /\ last.after.err = ""

\* C21: push(r) puts r at the last index and unshift(r) at index 0, and
\* both return the new length; pop() removes and returns the last RDN and
\* shift() the first; reverse() reverses the list in place and returns the
\* DN it was called on; pop after push and shift after unshift return the
\* RDN that was inserted and leave the list as it was before the insertion;
\* pop and shift on an empty DN return undefined and leave it empty.
C21_ListSemantics ==
    /\ (last.call.op = "push" /\ last.call.err = "") =>
          /\ RdnsOf(heap, last.call.dn)
                = RdnsOf(last.before, last.call.dn) \o <<last.call.arg.id>>
          /\ last.call.res = Length(last.before, last.call.dn) + 1
    /\ (last.call.op = "unshift" /\ last.call.err = "") =>
          /\ RdnsOf(heap, last.call.dn)
                = <<last.call.arg.id>> \o RdnsOf(last.before, last.call.dn)
          /\ last.call.res = Length(last.before, last.call.dn) + 1
    /\ last.call.op = "pop" =>
          IF Length(last.before, last.call.dn) = 0
          THEN last.call.res = Undef /\ heap = last.before
          ELSE /\ RdnsOf(heap, last.call.dn) \o <<last.call.res>>
                     = RdnsOf(last.before, last.call.dn)
               /\ FollowsOnSameDn("push") => last.call.res = last.after.arg.id
    /\ last.call.op = "shift" =>
          IF Length(last.before, last.call.dn) = 0
          THEN last.call.res = Undef /\ heap = last.before
          ELSE /\ <<last.call.res>> \o RdnsOf(heap, last.call.dn)
                     = RdnsOf(last.before, last.call.dn)
               /\ FollowsOnSameDn("unshift") => last.call.res = last.after.arg.id
    /\ last.call.op = "reverse" =>
          /\ last.call.res = last.call.dn
          /\ heap.dnObjs = last.before.dnObjs
          /\ Length(heap, last.call.dn) = Length(last.before, last.call.dn)
          /\ \A i \in 1..Length(heap, last.call.dn) :
                RdnsOf(heap, last.call.dn)[i]
                    = RdnsOf(last.before, last.call.dn)[Length(heap, last.call.dn) + 1 - i]

\* pop() right after push(r) on a DN that held an RDN other than r.
C21_Witness ==
    /\ last.call.op = "pop"
    /\ FollowsOnSameDn("push")
    /\ Length(heap, last.call.dn) > 0
    /\ RdnsOf(heap, last.call.dn)[1] # last.call.res

\* ------------------------------------------------------------ escapeValue
\* The values handed to escapeValue: strings of up to MaxEscChars
\* characters, each given by its UTF-8 bytes (ASCII letters, the bytes the
\* rules name, a control character, DEL, and characters of 2, 3 and 4
\* bytes), and values that are not strings.
EscapeChars ==
    {<<97>>, <<SPACE>>, <<HASH>>, <<QUOTE>>, <<PLUS>>, <<60>>, <<BACKSLASH>>,
     <<1>>, <<31>>, <<127>>,
     <<195, 169>>, <<226, 130, 172>>, <<240, 159, 152, 128>>}

RECURSIVE Flatten(_)
Flatten(parts) ==
    IF parts = <<>> THEN <<>> ELSE parts[1] \o Flatten(Tail(parts))

EscapeInputs ==
    {StrValue(Flatten(cs)) : cs \in StringsUpTo(EscapeChars, MaxEscChars)}
    \cup {BerValue(<<97>>, <<0, 0>>),
          [t |-> "number", b |-> <<>>, id |-> <<>>],
          [t |-> "undefined", b |-> <<>>, id |-> <<>>]}

EscapeInit ==
    /\ pc = "build"
    /\ dn = None
    /\ answer = None
    /\ rdn = None
    /\ arg \in EscapeInputs
    /\ NoText
    /\ NoHeap

\* escapeValue(arg)
CallEscapeValue ==
    /\ pc = "build"
    /\ answer' = escapeValueOf(arg)
    /\ pc' = "escaped"
    /\ UNCHANGED <<dn, textVars, queryVars, heapVars>>

\* new RDN({ a: arg }).toString() for a string argument
CallRdnToStringOfArg ==
    /\ pc = "build"
    /\ arg.t = "str"
    /\ answer' = [ok |-> TRUE, text |-> RdnToString(NewRdn(Pair(<<97>>, arg)).attrs)]
    /\ pc' = "printed"
    /\ UNCHANGED <<dn, textVars, queryVars, heapVars>>

\* new RDN({ a: arg }).toString({ unescaped: true }) for a string argument
CallRdnToStringUnescaped ==
    /\ pc = "build"
    /\ arg.t = "str"
    /\ answer' = [ok |-> TRUE,
                  text |-> RdnToStringWith(NewRdn(Pair(<<97>>, arg)).attrs,
                                           [unescaped |-> TRUE])]
    /\ pc' = "printed unescaped"
    /\ UNCHANGED <<dn, textVars, queryVars, heapVars>>

EscapeNext ==
    \/ CallEscapeValue
    \/ CallRdnToStringOfArg
    \/ CallRdnToStringUnescaped

SpecEscape == EscapeInit /\ [][EscapeNext]_vars

\* The digits of lowercase hexadecimal.
LowerHex == <<48, 49, 50, 51, 52, 53, 54, 55, 56, 57, 97, 98, 99, 100, 101, 102>>

\* RFC 4514 by byte: the byte at index i (from 1) of the UTF-8 bytes b is
\* escaped when it is a first space or '#', a last space, one of
\* " + , ; < >, a byte of a multi-byte sequence, or a control character.
MustEscape(b, i) ==
    \/ i = 1 /\ b[i] \in {32, 35}
    \/ i = Len(b) /\ b[i] = 32
    \/ b[i] \in {34, 43, 44, 59, 60, 62}
    \/ b[i] >= 128
    \/ b[i] <= 31

EscapedByRule(b) ==
    Flatten([i \in 1..Len(b) |->
                IF MustEscape(b, i)
                THEN <<92, LowerHex[(b[i] \div 16) + 1], LowerHex[(b[i] % 16) + 1]>>
                ELSE <<b[i]>>])

C16_UnescapedOption ==
    pc = "printed unescaped" => answer.text = <<97, 61>> \o arg.b

\* ---------------------------------------------------- serialization format
\* DNs built through the data model from names RDN.setAttribute accepts
\* (one of them holds a double quote) and from values of every kind: plain
\* strings, strings to escape, strings of the form #hex, and BerReaders.
FormatNames == {n \in {<<97>>, <<98>>, <<97, QUOTE>>} : NameAccepted(n)}

FormatValues ==
    {StrValue(<<120>>), StrValue(<<QUOTE>>), StrValue(<<SPACE>>),
     StrValue(<<HASH, 65, 98>>), StrValue(<<HASH, 97>>),
     BerValue(<<4, 171>>, <<0, 1>>), BerValue(<<>>, <<0, 2>>)}

FormatRdns ==
    {Pair(n, v) : n \in FormatNames, v \in FormatValues}
    \cup {Pair(ns[1], v1) \o Pair(ns[2], v2) :
            ns \in {m \in FormatNames \X FormatNames : m[1] # m[2]},
            v1 \in FormatValues, v2 \in FormatValues}

FormatObjects ==
    {<<>>} \cup {<<r>> : r \in FormatRdns}
    \cup {<<Pair(n1, v1), Pair(n2, v2)>> :
            n1 \in FormatNames, n2 \in FormatNames,
            v1 \in FormatValues, v2 \in FormatValues}

FormatInit ==
    /\ pc = "parsed"
    /\ input = <<>>
    /\ pojos = None
    /\ \E objs \in FormatObjects : dn = DnFrom(objs, 1, <<>>)
    /\ text = <<>>
    /\ reparsed = None
    /\ answer = None
    /\ other = None
    /\ NoQuery
    /\ NoHeap

\* dn.rdnAt(0).toString() on a DN that is not empty
CallRdnToString ==
    /\ pc = "parsed"
    /\ dn.kind = "ok"
    /\ Len(dn.rdns) > 0
    /\ answer' = [ok |-> TRUE, text |-> RdnToString(dn.rdns[1])]
    /\ pc' = "rdn printed"
    /\ UNCHANGED <<input, pojos, dn, text, reparsed, other>>
    /\ UNCHANGED <<queryVars, heapVars>>

FormatNext ==
    \/ CallToString
    \/ CallRdnToString

SpecFormat == FormatInit /\ [][FormatNext]_vars

\* '#' followed by one or more pairs of hex digits.
LooksHexEncoded(b) ==
    /\ Len(b) >= 3
    /\ Len(b) % 2 = 1
    /\ b[1] = 35
    /\ \A i \in 2..Len(b) :
          b[i] \in (48..57) \cup (65..70) \cup (97..102)

\* The value as the format gives it.
FormatOfValue(v) ==
    IF v.t = "str" /\ LooksHexEncoded(v.b) THEN v.b
    ELSE IF v.t = "ber"
    THEN <<35>> \o Flatten([i \in 1..Len(v.b) |->
                    <<LowerHex[(v.b[i] \div 16) + 1], LowerHex[(v.b[i] % 16) + 1]>>])
    ELSE escapeValue(v.b)

\* The parts joined by the byte sep.
JoinedBy(parts, sep) ==
    Flatten([i \in 1..Len(parts) |->
                IF i = 1 THEN parts[i] ELSE <<sep>> \o parts[i]])

FormatOfRdn(attrs) ==
    JoinedBy([i \in 1..Len(attrs) |->
                 attrs[i].name \o <<61>> \o FormatOfValue(attrs[i].value)], 43)

FormatOfDn(rdns) ==
    JoinedBy([i \in 1..Len(rdns) |-> FormatOfRdn(rdns[i])], 44)

\* C15: RDN.toString gives name=value for each attribute in insertion
\* order, joined by '+', with the value as it is when it has the form
\* #hex, as '#' and two lowercase hex digits per byte when it is a
\* BerReader, and as escapeValue gives it otherwise; DN.toString joins the
\* RDN strings with ',' and is '' for the empty DN; no double quote is
\* emitted unescaped.
C15_SerializationFormat ==
    /\ pc = "rdn printed" => answer.text = FormatOfRdn(dn.rdns[1])
    /\ pc = "printed" =>
          /\ text = FormatOfDn(dn.rdns)
          /\ dn.rdns = <<>> => text = <<>>
          /\ \A i \in 1..Len(text) :
                text[i] = 34 => (i > 1 /\ text[i - 1] = 92)

\* ------------------------------------------------------------ setAttribute
\* One RDN and calls of setAttribute with arguments of every kind: names
\* that are accepted, names that are not, a name that is not a string;
\* string, BerReader and other values; no options, options objects with
\* and without properties, and options that are not plain objects.
SetNames ==
    {StrValue(<<97>>), StrValue(<<49, 46, 50>>), StrValue(<<49, 46>>),
     StrValue(<<>>), StrValue(<<45, 97>>), [t |-> "number", b |-> <<>>, id |-> <<>>]}

SetValues ==
    {StrValue(<<120>>), BerValue(<<4>>, <<0, 1>>),
     [t |-> "number", b |-> <<>>, id |-> <<>>]}

SetOptions ==
    {OptionsObject(<<>>),
     OptionsObject(<<[key |-> "name", val |-> <<98>>]>>),
     OptionsObject(<<[key |-> "value", val |-> <<121>>]>>),
     OptionsObject(<<[key |-> "foo", val |-> <<98>>]>>),
     [tag |-> "Array", props |-> <<>>],
     [tag |-> "Null", props |-> <<>>]}

SetInit ==
    /\ pc = "build"
    /\ dn = None
    /\ answer = None
    /\ rdn = RdnInstance(<<>>)
    /\ arg = None
    /\ NoText
    /\ NoHeap

\* The argument of setAttribute: { name, value, options }.
Arguments(name, value, options) ==
    [name |-> name, value |-> value, options |-> options]

\* rdn.setAttribute({ name, value, options }); the call is recorded with
\* the entries it was made on.
CallSetAttributeOf(name, value, options) ==
    /\ pc = "build"
    /\ rdn' = RdnInstance(setAttributeOf(rdn.attrs,
                                         Arguments(name, value, options)).attrs)
    /\ answer' = [kind |-> "set",
                  arguments |-> Arguments(name, value, options),
                  before |-> rdn.attrs,
                  ok |-> setAttributeOf(rdn.attrs, Arguments(name, value, options)).ok,
                  err |-> setAttributeOf(rdn.attrs, Arguments(name, value, options)).err,
                  warned |-> WarnsOfOptions(Arguments(name, value, options))]
    /\ UNCHANGED <<pc, dn, arg, textVars, heapVars>>

SetNext ==
    \E name \in SetNames, value \in SetValues, options \in SetOptions :
        CallSetAttributeOf(name, value, options)

SpecSet == SetInit /\ [][SetNext]_vars

\* The names of an RDN, in the order of keys().
KeysOf(attrs) == [i \in 1..Len(attrs) |-> attrs[i].name]

\* Non-empty runs of digits separated by single dots.
IsOidText(b) ==
    /\ b # <<>>
    /\ \A i \in 1..Len(b) : b[i] \in (48..57) \cup {46}
    /\ b[1] # 46
    /\ b[Len(b)] # 46
    /\ \A i \in 1..(Len(b) - 1) : ~(b[i] = 46 /\ b[i + 1] = 46)

StartsWithLetter(b) == b # <<>> /\ b[1] \in (65..90) \cup (97..122)

\* The message setAttribute must throw for the arguments, "" when none.
ErrorFor(arguments) ==
    IF arguments.name.t # "str" THEN "name must be a string"
    ELSE IF arguments.value.t \notin {"str", "ber"}
    THEN "value must be a string or BerReader"
    ELSE IF arguments.options.tag # "Object" THEN "options must be an object"
    ELSE IF ~(StartsWithLetter(arguments.name.b) \/ IsOidText(arguments.name.b))
    THEN "attribute name must start with an ASCII alpha character or be a numeric OID"
    ELSE ""

\* C17: setAttribute throws when the name is not a string, when the value
\* is neither a string nor a BerReader, when options is not a plain object,
\* and when the name neither starts with an ASCII letter nor is a dotted
\* decimal; when it throws, the size, names, values and toString() of the
\* RDN are as before; when it returns, getValue(name) is the given value, a
\* name already present keeps its position, and a new name is added last.
C17_SetAttributeValidatesFirst ==
    (pc = "build" /\ answer # None) =>
        /\ answer.err = ErrorFor(answer.arguments)
        /\ answer.ok = (ErrorFor(answer.arguments) = "")
        /\ ~answer.ok =>
              /\ rdn.attrs = answer.before
              /\ RdnToString(rdn.attrs) = RdnToString(answer.before)
        /\ answer.ok =>
              /\ GetValue(rdn.attrs, answer.arguments.name.b) = answer.arguments.value
              /\ KeysOf(rdn.attrs) =
                    IF HasName(answer.before, answer.arguments.name.b)
                    THEN KeysOf(answer.before)
                    ELSE Append(KeysOf(answer.before), answer.arguments.name.b)
              /\ \A i \in 1..Len(answer.before) :
                    answer.before[i].name # answer.arguments.name.b
                        => rdn.attrs[i] = answer.before[i]

\* A call with a name that is a string but not accepted has thrown on an
\* RDN that holds two attributes.
C17_Witness ==
    /\ pc = "build"
    /\ answer # None
    /\ ~answer.ok
    /\ answer.err = "attribute name must start with an ASCII alpha character or be a numeric OID"
    /\ Len(rdn.attrs) = 2

\* What can be observed of an RDN: keys(), getValue of each, size and
\* toString().
Observed(attrs) ==
    [keys |-> KeysOf(attrs),
     values |-> [i \in 1..Len(attrs) |-> GetValue(attrs, attrs[i].name)],
     size |-> Len(attrs),
     text |-> RdnToString(attrs)]

\* C18: for every valid name and value and every options object,
\* setAttribute with the options leaves the RDN in the observable state
\* that setAttribute without options leaves it in; the name toString emits
\* is the name that was passed.
C18_OptionsIgnored ==
    (pc = "build" /\ answer # None /\ answer.ok) =>
        Observed(rdn.attrs) =
            Observed(setAttribute(answer.before, answer.arguments.name.b,
                                  answer.arguments.value).attrs)

\* ---------------------------------------------------------- binary values
\* A DN with one RDN whose value is a BerReader is printed and parsed
\* again; and the text of such a DN, with hex digits of either case, is
\* parsed, printed and parsed again.
BinaryBytes == {0, 10, 32, 43, 171, 255}

BinaryHexChars == {48, 57, 97, 65, 102, 70}

\* The texts of k hex pairs, for k up to n.
BinaryTexts(n) ==
    UNION {[1..(2 * k) -> BinaryHexChars] : k \in 0..n}

BinaryInit ==
    /\ \/ /\ pc = "parsed"
          /\ input = <<>>
          /\ \E b \in StringsUpTo(BinaryBytes, MaxBerLen) :
                dn = DnFrom(<<Pair(<<97>>, BerValue(b, <<0>>))>>, 1, <<>>)
       \/ /\ pc = "start"
          /\ \E digits \in BinaryTexts(MaxBerLen) :
                input = <<97, EQUALS, HASH>> \o digits
          /\ dn = None
    /\ pojos = None
    /\ text = <<>>
    /\ reparsed = None
    /\ answer = None
    /\ other = None
    /\ NoQuery
    /\ NoHeap

BinaryNext ==
    \/ CallFromString
    \/ CallToString
    \/ CallFromStringAgain

SpecBinary == BinaryInit /\ [][BinaryNext]_vars

\* The number a hex digit of either case stands for.
DigitValue(c) ==
    CHOOSE k \in 0..15 : LowerHex[k + 1] = (IF c \in 65..70 THEN c + 32 ELSE c)

\* Two lowercase hex digits per byte, in order.
HexOfBytes(b) ==
    [i \in 1..(2 * Len(b)) |->
        IF i % 2 = 1 THEN LowerHex[(b[(i + 1) \div 2] \div 16) + 1]
        ELSE LowerHex[(b[i \div 2] % 16) + 1]]

\* The bytes that pairs of hex digits stand for.
BytesOfHex(digits) ==
    [i \in 1..(Len(digits) \div 2) |->
        16 * DigitValue(digits[2 * i - 1]) + DigitValue(digits[2 * i])]

\* The one value of the one RDN of a DN.
OnlyValue(d) == d.rdns[1][1].value

HoldsOneBinary(d) ==
    /\ d.kind = "ok"
    /\ Len(d.rdns) = 1
    /\ Len(d.rdns[1]) = 1
    /\ OnlyValue(d).t = "ber"

\* C22: an RDN that holds a BerReader with bytes b prints its value as '#'
\* and two lowercase hex digits per byte of b in order, and parsing that
\* text gives a BerReader with exactly the bytes b; hex digits of either
\* case are accepted by the parser and printed again in lowercase.
C22_BinaryRoundTrip ==
    /\ (pc # "start" /\ input # <<>>) =>
          /\ HoldsOneBinary(dn)
          /\ OnlyValue(dn).b = BytesOfHex(SubSeq(input, 4, Len(input)))
    /\ pc \in {"printed", "reparsed"} =>
          /\ HoldsOneBinary(dn)
          /\ text = <<97, EQUALS, HASH>> \o HexOfBytes(OnlyValue(dn).b)
    /\ pc = "reparsed" =>
          /\ HoldsOneBinary(reparsed)
          /\ OnlyValue(reparsed).b = OnlyValue(dn).b

\* A BerReader of two bytes, the first below 0x10 and the second above
\* 0x7f, has been printed and parsed again.
C22_Witness ==
    /\ pc = "reparsed"
    /\ Len(OnlyValue(dn).b) = 2
    /\ OnlyValue(dn).b[1] \in 1..15
    /\ OnlyValue(dn).b[2] > 127

\* ---------------------------------------------------------- quoted values
\* readValueString on every buffer over a quote, a letter, a space, a
\* comma, a backslash and a hex digit, read from offset 0.
QuoteChars == {QUOTE, 97, SPACE, COMMA, BACKSLASH, 49}

\* What a reader gave: the end offset and the bytes, or the message of the
\* error.
Outcome(r) ==
    IF r.ok THEN [ok |-> TRUE, err |-> "", endPos |-> r.endPos, value |-> r.value]
    ELSE [ok |-> FALSE, err |-> r.err, endPos |-> Undef, value |-> <<>>]

QuoteInit ==
    /\ pc = "start"
    /\ input \in StringsUpTo(QuoteChars, MaxQuoteLen)
    /\ pojos = None
    /\ dn = None
    /\ text = <<>>
    /\ reparsed = None
    /\ answer = None
    /\ other = None
    /\ NoQuery
    /\ NoHeap

\* readValueString({ searchBuffer: input, startPos: 0 })
CallReadValueString ==
    /\ pc = "start"
    /\ answer' = Outcome(readValueString(input, 0))
    /\ pc' = "value read"
    /\ UNCHANGED <<input, pojos, dn, text, reparsed, other>>
    /\ UNCHANGED <<queryVars, heapVars>>

QuoteNext == CallReadValueString

SpecQuote == QuoteInit /\ [][QuoteNext]_vars

Failure(msg) == [ok |-> FALSE, err |-> msg, endPos |-> Undef, value |-> <<>>]

Success(endPos, bytes) == [ok |-> TRUE, err |-> "", endPos |-> endPos, value |-> bytes]

IsHexByte(c) == c \in (48..57) \cup (65..70) \cup (97..102)

\* After the closing quote at offset pos - 1 (offsets from 0): spaces, then
\* a separator or the end of the buffer.
RECURSIVE AfterClosingQuote(_, _, _)
AfterClosingQuote(v, pos, bytes) ==
    IF pos >= Len(v) \/ v[pos + 1] \in {PLUS, COMMA, SEMI} THEN Success(pos, bytes)
    ELSE IF v[pos + 1] = SPACE THEN AfterClosingQuote(v, pos + 1, bytes)
    ELSE Failure("significant rdn character found outside of quotes at position")

\* The value of the buffer v by the rules for quotes: an escape is a
\* backslash and two hex digits, or a backslash and one ASCII byte.
RECURSIVE QuotedScan(_, _, _, _)
QuotedScan(v, pos, open, bytes) ==
    IF pos >= Len(v)
    THEN (IF open THEN Failure("missing ending double quote for attribute value")
          ELSE Success(pos, bytes))
    ELSE IF v[pos + 1] = QUOTE
    THEN (IF open THEN AfterClosingQuote(v, pos + 1, bytes)
          ELSE IF pos = 0 THEN QuotedScan(v, 1, TRUE, bytes)
          ELSE Failure("unexpected quote in rdn string at position"))
    ELSE IF v[pos + 1] \in {PLUS, COMMA, SEMI} /\ ~open THEN Success(pos, bytes)
    ELSE IF v[pos + 1] = BACKSLASH
    THEN (IF pos + 3 <= Len(v) /\ IsHexByte(v[pos + 2]) /\ IsHexByte(v[pos + 3])
          THEN QuotedScan(v, pos + 3, open,
                          Append(bytes, 16 * DigitValue(v[pos + 2]) + DigitValue(v[pos + 3])))
          ELSE IF pos + 2 <= Len(v) /\ v[pos + 2] <= 127
          THEN QuotedScan(v, pos + 2, open, Append(bytes, v[pos + 2]))
          ELSE Failure("invalid hex code in escape sequence"))
    ELSE QuotedScan(v, pos + 1, open, Append(bytes, v[pos + 1]))

\* C23: a quote is accepted as the first byte of a value and as the close
\* of an open quote; between the quotes '+', ',' and ';' are bytes of the
\* value; after the closing quote come spaces and then a separator or the
\* end of the buffer.  A quote anywhere else throws 'unexpected quote', any
\* other byte after the closing quote throws 'significant rdn character
\* found outside of quotes', and the end of the buffer with the quote open
\* throws 'missing ending double quote'.
C23_QuotedValues ==
    pc = "value read" => answer = QuotedScan(input, 0, FALSE, <<>>)

\* --------------------------------------------------------- attribute names
\* readAttributePair and DN.fromString on every buffer over a letter, a
\* digit, '-', '.', '_', '=' and a space.
NameChars == {97, 49, 45, 46, 95, EQUALS, SPACE}

NameInit ==
    /\ pc = "start"
    /\ input \in StringsUpTo(NameChars, MaxNameLen)
    /\ pojos = None
    /\ dn = None
    /\ text = <<>>
    /\ reparsed = None
    /\ answer = None
    /\ other = None
    /\ NoQuery
    /\ NoHeap

\* What readAttributePair gave: the name and the end offset, or the
\* message of the error and the text that follows it.
PairOutcome(r) ==
    IF r.ok THEN [ok |-> TRUE, err |-> "", detail |-> r.name, endPos |-> r.endPos]
    ELSE [ok |-> FALSE, err |-> r.err, detail |-> r.detail, endPos |-> Undef]

\* readAttributePair({ searchBuffer: input, startPos: 0 })
CallReadAttributePair ==
    /\ pc = "start"
    /\ answer' = PairOutcome(readAttributePair(input, 0, 1))
    /\ pc' = "pair read"
    /\ UNCHANGED <<input, pojos, dn, text, reparsed, other>>
    /\ UNCHANGED <<queryVars, heapVars>>

NameNext ==
    \/ CallReadAttributePair
    \/ CallFromString

SpecName == NameInit /\ [][NameNext]_vars

IsLetterByte(c) == c \in (65..90) \cup (97..122)

IsDigitByte(c) == c \in 48..57

IsNameByte(c) == IsLetterByte(c) \/ IsDigitByte(c) \/ c = 45 \/ c = 46

\* The offset (from 1) of the first byte of v that is not a space, Len(v)
\* + 1 when there is none.
RECURSIVE FirstNonSpace(_, _)
FirstNonSpace(v, i) ==
    IF i > Len(v) \/ v[i] # SPACE THEN i ELSE FirstNonSpace(v, i + 1)

\* The offset of the space or '=' that ends the name that starts at i,
\* Len(v) + 1 when the name runs to the end.
RECURSIVE NameStop(_, _)
NameStop(v, i) ==
    IF i > Len(v) \/ v[i] \in {SPACE, EQUALS} THEN i ELSE NameStop(v, i + 1)

\* The name at the start of v: from the first byte that is not a space to
\* the space or '=' that ends it.
NameOfText(v) ==
    SubSeq(v, FirstNonSpace(v, 1), NameStop(v, FirstNonSpace(v, 1)) - 1)

HasValidLead(v) ==
    NameOfText(v) # <<>> /\ (IsLetterByte(NameOfText(v)[1]) \/ IsDigitByte(NameOfText(v)[1]))

\* An ASCII letter followed by letters, digits and '-'.
IsDescriptor(n) ==
    /\ n # <<>>
    /\ IsLetterByte(n[1])
    /\ \A i \in 1..Len(n) : IsLetterByte(n[i]) \/ IsDigitByte(n[i]) \/ n[i] = 45

NameErrors ==
    {"invalid attribute name leading character encountered",
     "invalid character in attribute name encountered",
     "invalid attribute type name: "}

\* C24: when the name has a valid leading character and, before the space
\* or '=' that ends it, a byte that is not an ASCII letter, a digit, '-' or
\* '.', readAttributePair throws 'invalid character in attribute name
\* encountered'.
C24_InvalidNameCharacter ==
    (/\ pc = "pair read"
     /\ HasValidLead(input)
     /\ \E i \in 1..Len(NameOfText(input)) : ~IsNameByte(NameOfText(input)[i]))
        => (~answer.ok /\ answer.err = "invalid character in attribute name encountered")

\* C25: a name of letters, digits, '-' and '.' with a valid leading
\* character is accepted by the parser iff it is a descriptor or a dotted
\* decimal (runs of digits separated by single dots, starting with a
\* digit); every other such name is rejected with 'invalid attribute type
\* name: ' followed by the name.
C25_NameAcceptedIffValid ==
    (/\ pc = "pair read"
     /\ HasValidLead(input)
     /\ \A i \in 1..Len(NameOfText(input)) : IsNameByte(NameOfText(input)[i]))
        => IF IsDescriptor(NameOfText(input)) \/ IsOidText(NameOfText(input))
           THEN answer.err \notin NameErrors
           ELSE /\ ~answer.ok
                /\ answer.err = "invalid attribute type name: "
                /\ answer.detail = NameOfText(input)

\* C26: when parseString(s) returns a list, DN.fromString(s) returns a DN:
\* every name and value the parser lets through is taken by RDN.setAttribute
\* and by the DN constructor.
C26_ParsedIsConvertible ==
    (pc = "parsed" /\ pojos.kind = "ok") => dn.kind = "ok"

\* C27: parseString terminates on every input: it returns a list or throws,
\* and never stays in a loop whose offset does not advance.
C27_ParseStringTerminates ==
    pc = "parsed" => pojos.kind \in {"ok", "throw"}

\* ------------------------------------------------------------ the readers
\* The four readers of the parser, each called at offset 0 of every buffer
\* over a backslash, the hex digits 'c' and '3', ',', '=' and the byte 0xC3.
ReadChars == {BACKSLASH, 99, 51, COMMA, EQUALS, 195}

ReadInit ==
    /\ pc = "start"
    /\ input \in StringsUpTo(ReadChars, MaxReadLen)
    /\ pojos = None
    /\ dn = None
    /\ text = <<>>
    /\ reparsed = None
    /\ answer = None
    /\ other = None
    /\ NoQuery
    /\ NoHeap

\* What a reader gave: its end offset and the bytes it decoded, or the
\* message of its error.
ReadOutcome(r, bytes) ==
    IF r.ok THEN [ok |-> TRUE, err |-> "", endPos |-> r.endPos, bytes |-> bytes]
    ELSE [ok |-> FALSE, err |-> r.err, endPos |-> Undef, bytes |-> <<>>]

EscapeOutcome(r) == ReadOutcome(r, IF r.ok THEN r.parsed ELSE <<>>)

HexOutcome(r) == ReadOutcome(r, IF r.ok THEN r.bytes ELSE <<>>)

ValueOutcome(r) == ReadOutcome(r, IF r.ok THEN r.value.b ELSE <<>>)

\* readEscapeSequence({ searchBuffer: input, startPos: 0 })
CallReadEscapeSequence ==
    /\ pc = "start"
    /\ answer' = EscapeOutcome(readEscapeSequence(input, 0))
    /\ pc' = "escape read"
    /\ UNCHANGED <<input, pojos, dn, text, reparsed, other>>
    /\ UNCHANGED <<queryVars, heapVars>>

\* readHexString({ searchBuffer: input, startPos: 0 })
CallReadHexString ==
    /\ pc = "start"
    /\ answer' = HexOutcome(readHexString(input, 0))
    /\ pc' = "hex read"
    /\ UNCHANGED <<input, pojos, dn, text, reparsed, other>>
    /\ UNCHANGED <<queryVars, heapVars>>

\* readAttributeValue({ searchBuffer: input, startPos: 0 })
CallReadAttributeValue ==
    /\ pc = "start"
    /\ answer' = ValueOutcome(readAttributeValue(input, 0, 1))
    /\ pc' = "attribute value read"
    /\ UNCHANGED <<input, pojos, dn, text, reparsed, other>>
    /\ UNCHANGED <<queryVars, heapVars>>

ReadNext ==
    \/ CallReadEscapeSequence
    \/ CallReadHexString
    \/ CallReadAttributeValue
    \/ CallReadAttributePair

SpecRead == ReadInit /\ [][ReadNext]_vars

\* The escape decoder as documented: a backslash and two hex digits give
\* the byte they denote (three bytes consumed), a backslash and any other
\* byte up to 0x7F give that byte (two bytes consumed), anything else is an
\* error.  "lead" when a hex escape denotes a UTF-8 lead byte, whose
\* continuation pairs are another matter.
RECURSIVE EscapeScan(_, _, _)
EscapeScan(v, pos, bytes) ==
    IF pos >= Len(v) \/ v[pos + 1] # BACKSLASH
    THEN [ok |-> TRUE, err |-> "", endPos |-> pos, bytes |-> bytes]
    ELSE IF pos + 3 <= Len(v) /\ IsHexByte(v[pos + 2]) /\ IsHexByte(v[pos + 3])
    THEN (IF 16 * DigitValue(v[pos + 2]) + DigitValue(v[pos + 3]) \in 192..247
          THEN [ok |-> FALSE, err |-> "lead", endPos |-> Undef, bytes |-> <<>>]
          ELSE EscapeScan(v, pos + 3,
                   Append(bytes, 16 * DigitValue(v[pos + 2]) + DigitValue(v[pos + 3]))))
    ELSE IF pos + 2 <= Len(v) /\ v[pos + 2] <= 127
    THEN EscapeScan(v, pos + 2, Append(bytes, v[pos + 2]))
    ELSE [ok |-> FALSE, err |-> "invalid hex code in escape sequence",
          endPos |-> Undef, bytes |-> <<>>]

\* C28: readEscapeSequence decodes as documented: a backslash followed by
\* two bytes that are not both hex digits gives the byte after the
\* backslash when it is at most 0x7F and consumes two bytes, and fails with
\* 'invalid hex code in escape sequence' when that byte is above 0x7F or
\* missing; a backslash followed by two hex digits gives the byte they
\* denote and consumes three bytes.
C28_EscapeDecoding ==
    (pc = "escape read" /\ EscapeScan(input, 0, <<>>).err # "lead")
        => answer = EscapeScan(input, 0, <<>>)

\* C29: every reader that returns gives an end offset between its start
\* offset and the length of the buffer.
C29_OffsetsInsideBuffer ==
    (pc \in {"escape read", "hex read", "attribute value read", "pair read"} /\ answer.ok)
        => (0 <= answer.endPos /\ answer.endPos <= Len(input))

\* ------------------------------------------------- the order of parentOf
\* Three DNs A (dn), B (arg) and C (other) of up to MaxOrderLen RDNs with
\* string values: a plain RDN, and one with two attributes.
OrderObjects ==
    {Pair(<<97>>, StrValue(<<120>>)),
     Pair(<<98>>, StrValue(<<121>>)) \o Pair(<<97>>, StrValue(<<120>>))}

OrderDns == {DnFrom(objs, 1, <<>>) : objs \in StringsUpTo(OrderObjects, MaxOrderLen)}

OrderInit ==
    /\ pc = "build"
    /\ dn \in OrderDns
    /\ \E b \in OrderDns : arg = DnInstance(b.rdns)
    /\ \E c \in OrderDns : other = DnInstance(c.rdns)
    /\ rdn = None
    /\ answer = None
    /\ input = <<>>
    /\ pojos = None
    /\ text = <<>>
    /\ reparsed = None
    /\ NoHeap

\* A.parentOf(A), A.parentOf(B), B.parentOf(A), B.parentOf(C),
\* A.parentOf(C) and, when A is not empty, A.parent().parentOf(A)
CallParentOfEach ==
    /\ pc = "build"
    /\ answer' = [kind |-> "ok",
                  aa |-> DnParentOf(dn.rdns, dn.rdns),
                  ab |-> DnParentOf(dn.rdns, arg.rdns),
                  ba |-> DnParentOf(arg.rdns, dn.rdns),
                  bc |-> DnParentOf(arg.rdns, other.rdns),
                  ac |-> DnParentOf(dn.rdns, other.rdns),
                  parentOfChild |->
                      IF DnIsEmpty(dn.rdns) THEN FALSE
                      ELSE DnParentOf(DnParentRdns(dn.rdns), dn.rdns)]
    /\ pc' = "ordered"
    /\ UNCHANGED <<dn, textVars, queryVars, heapVars>>

OrderNext == CallParentOfEach

SpecOrder == OrderInit /\ [][OrderNext]_vars

\* C30: parentOf is a strict partial order on DNs with string values: no
\* DN is its own parent, A.parentOf(B) and B.parentOf(A) are never both
\* true, A.parentOf(B) and B.parentOf(C) give A.parentOf(C); and the parent
\* of a DN that is not empty is a parent of it.
C30_ParentOfStrictOrder ==
    pc = "ordered" =>
        /\ ~answer.aa
        /\ ~(answer.ab /\ answer.ba)
        /\ (answer.ab /\ answer.bc) => answer.ac
        /\ ~DnIsEmpty(dn.rdns) => answer.parentOfChild

\* A chain of three DNs that are not empty: A is a parent of B and B of C.
C30_Witness ==
    /\ pc = "ordered"
    /\ ~DnIsEmpty(dn.rdns)
    /\ answer.ab
    /\ answer.bc
    /\ answer.ac
    /\ answer.parentOfChild

====
